---- MODULE Spec2Model ----
(***************************************************************************)
(* Notification core of ivan-task-manager: event detection, notification   *)
(* policy, dedupe ledger and the handlers that drive them                  *)
(* (backend/app/events.py, event_detector.py, notification_config.py,      *)
(* notification_filter.py, notification_state.py, notifier.py, main.py).   *)
(***************************************************************************)
EXTENDS Integers, Sequences, FiniteSets, TLC

(***************************************************************************)
(* Bounds of the model.                                                    *)
(***************************************************************************)
MaxDay == 3
MaxComment == 58

(***************************************************************************)
(* Python values.                                                          *)
(***************************************************************************)
None == "<None>"
NoDate == 0 - 1

EmptyDict == [k \in {} |-> None]

Get(d, k, default) == IF k \in DOMAIN d THEN d[k] ELSE default

Put(d, k, v) == [x \in (DOMAIN d) \cup {k} |-> IF x = k THEN v ELSE d[x]]

Min(a, b) == IF a < b THEN a ELSE b

Max(a, b) == IF a > b THEN a ELSE b

\* str(date): ISO formatting of day number d of the modelled month
StrDate(d) ==
    IF d + 1 < 10 THEN "2026-03-0" \o ToString(d + 1)
                  ELSE "2026-03-" \o ToString(d + 1)

\* s.lower() on the strings of the model
Lower(s) ==
    CASE s = "Blocked" -> "blocked"
      [] s = "URGENT" -> "urgent"
      [] s = "Closed" -> "closed"
      [] OTHER -> s

\* sub in s
Contains(s, sub) ==
    \E i \in 1..(Len(s) - Len(sub) + 1) : SubSeq(s, i, i + Len(sub) - 1) = sub

\* s[-n:] of a list
LastN(s, n) == IF Len(s) <= n THEN s ELSE SubSeq(s, Len(s) - n + 1, Len(s))

\* s[:n] of a string
Prefix(s, n) == IF Len(s) <= n THEN s ELSE SubSeq(s, 1, n)

InSeq(x, s) == \E i \in 1..Len(s) : s[i] = x

(***************************************************************************)
(* events.py                                                               *)
(***************************************************************************)
DEADLINE_WARNING == "deadline_warning"
OVERDUE == "overdue"
ASSIGNED == "assigned"
STATUS_CRITICAL == "status_critical"
MENTIONED == "mentioned"
COMMENT_ON_OWNED == "comment_on_owned"
BLOCKER_RESOLVED == "blocker_resolved"

EventType ==
    {DEADLINE_WARNING, OVERDUE, ASSIGNED, STATUS_CRITICAL, MENTIONED,
     COMMENT_ON_OWNED, BLOCKER_RESOLVED}

Event(trigger, task_id, fingerprint, context) ==
    [trigger |-> trigger, task_id |-> task_id, fingerprint |-> fingerprint,
     context |-> context]

dedupe_key(event) ==
    event.trigger \o ":" \o event.task_id \o ":" \o event.fingerprint

(***************************************************************************)
(* notification_config.py                                                  *)
(***************************************************************************)
THRESHOLD_EXEMPT_TRIGGERS == {"deadline_warning", "overdue"}

VALID_TRIGGERS ==
    {"deadline_warning", "overdue", "assigned", "status_critical",
     "mentioned", "comment_on_owned", "blocker_resolved"}

DEFAULT_TRIGGERS ==
    [t \in VALID_TRIGGERS |-> t # "comment_on_owned"]

DefaultConfig == [mode |-> "focus", threshold |-> 500, triggers |-> DEFAULT_TRIGGERS]

is_trigger_enabled(config, trigger) == Get(config.triggers, trigger, FALSE)

(***************************************************************************)
(* event_detector.py                                                       *)
(***************************************************************************)
CRITICAL_STATUSES == {"blocked", "urgent", "critical"}

\* task.notification_state or {}: the column holds a dict, {} when nothing
\* was recorded yet
StateOf(task) ==
    IF DOMAIN task.notification_state = {} THEN EmptyDict
    ELSE task.notification_state

\* each _check_* returns a list with the event, or the empty list for None
\* variant: the 24h branch tests "not yet 24h" instead of "nothing recorded"
_check_deadline_not_24h(task, state, today) ==
    IF task.due_date = NoDate THEN <<>>
    ELSE LET due == task.due_date
             days_until == due - today
             last_notified == Get(state, "last_deadline_notified", None)
         IN IF days_until = 0 /\ last_notified # "2h"
            THEN << Event(DEADLINE_WARNING, task.id, "2h",
                          [due_date |-> StrDate(due), urgency |-> "today"]) >>
            ELSE IF days_until = 1 /\ last_notified # "24h"
            THEN << Event(DEADLINE_WARNING, task.id, "24h",
                          [due_date |-> StrDate(due), urgency |-> "tomorrow"]) >>
            ELSE <<>>

_check_deadline(task, state, today) ==
    IF task.due_date = NoDate THEN <<>>
    ELSE LET due == task.due_date
             days_until == due - today
             last_notified == Get(state, "last_deadline_notified", None)
         IN IF days_until = 0 /\ last_notified # "2h"
            THEN << Event(DEADLINE_WARNING, task.id, "2h",
                          [due_date |-> StrDate(due), urgency |-> "today"]) >>
            ELSE IF days_until = 1 /\ last_notified = None
            THEN << Event(DEADLINE_WARNING, task.id, "24h",
                          [due_date |-> StrDate(due), urgency |-> "tomorrow"]) >>
            ELSE <<>>

_check_overdue(task, state, today) ==
    IF task.due_date = NoDate THEN <<>>
    ELSE LET due == task.due_date
             last_notified == Get(state, "last_overdue_notified", None)
         IN IF due >= today THEN <<>>
            ELSE IF last_notified = StrDate(today) THEN <<>>
            ELSE << Event(OVERDUE, task.id, "overdue:" \o StrDate(today),
                          [due_date |-> StrDate(due),
                           days_overdue |-> today - due]) >>

_check_status_critical(task, state) ==
    LET prev_status == Get(state, "prev_status", None)
        current_status == IF task.status # None /\ task.status # ""
                          THEN Lower(task.status) ELSE ""
    IN IF current_status \in CRITICAL_STATUSES /\ prev_status # current_status
       THEN << Event(STATUS_CRITICAL, task.id, "status=" \o current_status,
                     [new_status |-> current_status,
                      prev_status |-> prev_status]) >>
       ELSE <<>>

_check_assigned(task, state) ==
    LET prev_assignee == Get(state, "prev_assignee", None)
        current_assignee == task.assignee
    IN IF current_assignee = "ivan" /\ prev_assignee # "ivan"
       THEN << Event(ASSIGNED, task.id, "assignee=" \o current_assignee,
                     [prev_assignee |-> prev_assignee]) >>
       ELSE <<>>

\* variant: fires as soon as the list of blockers got shorter
_check_blocker_resolved_partial(task, state) ==
    LET prev_blocked_by == Get(state, "prev_blocked_by", <<>>)
        current_blocked_by == task.blocked_by
    IN IF Len(prev_blocked_by) > Len(current_blocked_by)
       THEN << Event(BLOCKER_RESOLVED, task.id, "unblocked",
                     [resolved_blockers |-> prev_blocked_by]) >>
       ELSE <<>>

_check_blocker_resolved(task, state) ==
    LET prev_blocked_by == Get(state, "prev_blocked_by", <<>>)
        current_blocked_by == task.blocked_by
    IN IF Len(prev_blocked_by) > 0 /\ Len(current_blocked_by) = 0
       THEN << Event(BLOCKER_RESOLVED, task.id, "unblocked",
                     [resolved_blockers |-> prev_blocked_by]) >>
       ELSE <<>>

detect_from_sync(task, today) ==
    LET state == StateOf(task)
    IN _check_deadline(task, state, today)
       \o _check_overdue(task, state, today)
       \o _check_status_critical(task, state)
       \o _check_assigned(task, state)
       \o _check_blocker_resolved(task, state)

(***************************************************************************)
(* notification_filter.py                                                  *)
(***************************************************************************)
\* variant: a score equal to the threshold is blocked
should_notify_strict(config, event, task) ==
    LET trigger == event.trigger
        dedupe_keys == Get(StateOf(task), "dedupe_keys", <<>>)
    IN IF config.mode = "off" THEN FALSE
       ELSE IF ~ is_trigger_enabled(config, trigger) THEN FALSE
       ELSE IF trigger \notin THRESHOLD_EXEMPT_TRIGGERS
               /\ task.score <= config.threshold THEN FALSE
       ELSE IF InSeq(dedupe_key(event), dedupe_keys) THEN FALSE
       ELSE TRUE

should_notify(config, event, task) ==
    LET trigger == event.trigger
        dedupe_keys == Get(StateOf(task), "dedupe_keys", <<>>)
    IN IF config.mode = "off" THEN FALSE
       ELSE IF ~ is_trigger_enabled(config, trigger) THEN FALSE
       ELSE IF trigger \notin THRESHOLD_EXEMPT_TRIGGERS
               /\ task.score < config.threshold THEN FALSE
       ELSE IF InSeq(dedupe_key(event), dedupe_keys) THEN FALSE
       ELSE TRUE

(***************************************************************************)
(* notification_state.py                                                   *)
(***************************************************************************)
MAX_DEDUPE_KEYS == 50

\* the task with its notification_state replaced
WithState(task, state) == [task EXCEPT !.notification_state = state]

\* variant: the list is cut to its first 50 keys
update_notification_state_keep_first(task, event, today) ==
    LET state0 == StateOf(task)
        dedupe_keys == Append(Get(state0, "dedupe_keys", <<>>), dedupe_key(event))
        state1 == Put(state0, "dedupe_keys", Prefix(dedupe_keys, MAX_DEDUPE_KEYS))
        state2 == IF event.trigger = DEADLINE_WARNING
                  THEN Put(state1, "last_deadline_notified", event.fingerprint)
                  ELSE IF event.trigger = OVERDUE
                  THEN Put(state1, "last_overdue_notified", StrDate(today))
                  ELSE state1
        state3 == Put(state2, "prev_status", task.status)
        state4 == Put(state3, "prev_assignee", task.assignee)
        state5 == Put(state4, "prev_blocked_by", task.blocked_by)
    IN WithState(task, state5)

\* variant: the list is not cut
update_notification_state_uncut(task, event, today) ==
    LET state0 == StateOf(task)
        dedupe_keys == Append(Get(state0, "dedupe_keys", <<>>), dedupe_key(event))
        state1 == Put(state0, "dedupe_keys", dedupe_keys)
        state2 == IF event.trigger = DEADLINE_WARNING
                  THEN Put(state1, "last_deadline_notified", event.fingerprint)
                  ELSE IF event.trigger = OVERDUE
                  THEN Put(state1, "last_overdue_notified", StrDate(today))
                  ELSE state1
        state3 == Put(state2, "prev_status", task.status)
        state4 == Put(state3, "prev_assignee", task.assignee)
        state5 == Put(state4, "prev_blocked_by", task.blocked_by)
    IN WithState(task, state5)

\* variant: every event that is no deadline warning sets the overdue marker
update_notification_state_else_overdue(task, event, today) ==
    LET state0 == StateOf(task)
        dedupe_keys == Append(Get(state0, "dedupe_keys", <<>>), dedupe_key(event))
        state1 == Put(state0, "dedupe_keys", LastN(dedupe_keys, MAX_DEDUPE_KEYS))
        state2 == IF event.trigger = DEADLINE_WARNING
                  THEN Put(state1, "last_deadline_notified", event.fingerprint)
                  ELSE Put(state1, "last_overdue_notified", StrDate(today))
        state3 == Put(state2, "prev_status", task.status)
        state4 == Put(state3, "prev_assignee", task.assignee)
        state5 == Put(state4, "prev_blocked_by", task.blocked_by)
    IN WithState(task, state5)

\* today is date.today() at the time of the call
update_notification_state(task, event, today) ==
    LET state0 == StateOf(task)
        dedupe_keys == Append(Get(state0, "dedupe_keys", <<>>), dedupe_key(event))
        state1 == Put(state0, "dedupe_keys", LastN(dedupe_keys, MAX_DEDUPE_KEYS))
        state2 == IF event.trigger = DEADLINE_WARNING
                  THEN Put(state1, "last_deadline_notified", event.fingerprint)
                  ELSE IF event.trigger = OVERDUE
                  THEN Put(state1, "last_overdue_notified", StrDate(today))
                  ELSE state1
        state3 == Put(state2, "prev_status", task.status)
        state4 == Put(state3, "prev_assignee", task.assignee)
        state5 == Put(state4, "prev_blocked_by", task.blocked_by)
    IN WithState(task, state5)

\* variant: the snapshot is written into a fresh dict
update_prev_state_only_fresh(task) ==
    LET state1 == Put(EmptyDict, "prev_status", task.status)
        state2 == Put(state1, "prev_assignee", task.assignee)
        state3 == Put(state2, "prev_blocked_by", task.blocked_by)
    IN WithState(task, state3)

update_prev_state_only(task) ==
    LET state0 == StateOf(task)
        state1 == Put(state0, "prev_status", task.status)
        state2 == Put(state1, "prev_assignee", task.assignee)
        state3 == Put(state2, "prev_blocked_by", task.blocked_by)
    IN WithState(task, state3)

(***************************************************************************)
(* notifier.py.  In message texts "#" stands for the one-character emoji   *)
(* and "/" for the newline.                                                *)
(***************************************************************************)
format_event_message(event, task) ==
    LET trigger == event.trigger
        ctx == event.context
        tail == "<" \o task.url \o "|View task>"
        title == "\"" \o task.title \o "\"/"
    IN CASE trigger = DEADLINE_WARNING ->
              LET time_str == IF Get(ctx, "urgency", "soon") = "today"
                              THEN "in 2 hours" ELSE "in 24 hours"
              IN "# *Deadline " \o time_str \o "*/" \o title \o "Due: "
                 \o Get(ctx, "due_date", "Unknown") \o "/" \o tail
         [] trigger = OVERDUE ->
              LET days == Get(ctx, "days_overdue", 1)
                  days_str == ToString(days) \o " day"
                              \o (IF days > 1 THEN "s" ELSE "")
              IN "# *Overdue*/" \o title \o "Was due: "
                 \o Get(ctx, "due_date", "Unknown") \o " (" \o days_str
                 \o " ago)/" \o tail
         [] trigger = ASSIGNED ->
              LET prev == Get(ctx, "prev_assignee", "someone")
              IN "# *Newly assigned to you*/" \o title \o "Previously: "
                 \o (IF prev = None \/ prev = "" THEN "unassigned" ELSE prev)
                 \o "/" \o tail
         [] trigger = STATUS_CRITICAL ->
              "# *Status changed to " \o Get(ctx, "new_status", "critical")
              \o "*/" \o title \o tail
         [] trigger = MENTIONED ->
              "# *You were mentioned*/" \o title \o "By: "
              \o Get(ctx, "commenter", "Someone") \o "/\""
              \o Get(ctx, "body_preview", "") \o "\"/" \o tail
         [] trigger = COMMENT_ON_OWNED ->
              "# *New comment on your task*/" \o title \o "By: "
              \o Get(ctx, "commenter", "Someone") \o "/" \o tail
         [] trigger = BLOCKER_RESOLVED ->
              "# *Blocker resolved*/" \o title \o "You can now proceed/" \o tail
         [] OTHER -> "# *Notification*/" \o title \o tail

\* hashlib.md5(...).hexdigest(): one digest per input string
Md5(s) == "md5(" \o s \o ")"

\* variant: the hash covers the type and the text only
MessageHash_without_task(notification_type, task_id, message) ==
    Md5(notification_type \o ":" \o Prefix(message, 100))

MessageHash(notification_type, task_id, message) ==
    Md5(notification_type \o ":" \o task_id \o ":" \o Prefix(message, 100))

\* quiet is is_quiet_hours() at the time of the call, log the message hashes
\* stored in NotificationLog
_should_send(log, quiet, notification_type, task_id, message) ==
    IF quiet /\ notification_type # "morning" THEN FALSE
    ELSE MessageHash(notification_type, task_id, message) \notin log

_log_notification(log, notification_type, task_id, message) ==
    log \cup {MessageHash(notification_type, task_id, message)}

\* slack_ok: chat_postMessage raised no SlackApiError.  The result is the
\* returned flag and NotificationLog after the call.
send_dm(log, quiet, slack_ok, message, notification_type, task_id) ==
    IF ~ _should_send(log, quiet, notification_type, task_id, message)
    THEN [ok |-> FALSE, log |-> log]
    ELSE IF slack_ok
    THEN [ok |-> TRUE,
          log |-> _log_notification(log, notification_type, task_id, message)]
    ELSE [ok |-> FALSE, log |-> log]

send_event_notification(log, quiet, slack_ok, event, task) ==
    send_dm(log, quiet, slack_ok, format_event_message(event, task),
            event.trigger, task.id)

(***************************************************************************)
(* event_detector.py: webhook payloads.  A payload is a dict.              *)
(***************************************************************************)
IVAN_GITHUB_LOGIN == "ivanivanka"

_parse_github_webhook(event_type, payload) ==
    IF event_type = "issue_comment" /\ Get(payload, "action", None) = "created"
    THEN LET comment == Get(payload, "comment", EmptyDict)
             issue == Get(payload, "issue", EmptyDict)
             task_id == "github:" \o (IF "number" \in DOMAIN issue
                                       THEN ToString(issue.number) ELSE "None")
             commenter == Get(Get(comment, "user", EmptyDict), "login", "unknown")
             body == Get(comment, "body", "")
             fingerprint == "comment_id=" \o (IF "id" \in DOMAIN comment
                                              THEN ToString(comment.id)
                                              ELSE "None")
             context == [commenter |-> commenter,
                         body_preview |-> Prefix(body, 100)]
             assignee == Get(issue, "assignee", EmptyDict)
         IN IF Contains(body, "@ivanivanka") \/ Contains(Lower(body), "ivan")
            THEN << Event(MENTIONED, task_id, fingerprint, context) >>
            ELSE IF DOMAIN assignee # {}
                    /\ Get(assignee, "login", None) = IVAN_GITHUB_LOGIN
            THEN << Event(COMMENT_ON_OWNED, task_id, fingerprint, context) >>
            ELSE <<>>
    ELSE <<>>

\* payload.get("task_id") or payload.get("task", {}).get("id")
ClickupTaskIdRaw(payload) ==
    LET direct == Get(payload, "task_id", None)
    IN IF direct # None /\ direct # "" THEN direct
       ELSE Get(Get(payload, "task", EmptyDict), "id", None)

_parse_clickup_webhook(event_type, payload) ==
    LET task_id_raw == ClickupTaskIdRaw(payload)
    IN IF task_id_raw = None \/ task_id_raw = "" THEN <<>>
       ELSE LET task_id == "clickup:" \o task_id_raw
                history == Get(payload, "history_items", << EmptyDict >>)
            IN IF event_type = "taskCommentPosted" /\ Len(history) > 0
               THEN LET comment_data == Get(history[1], "comment", EmptyDict)
                        commenter == Get(Get(comment_data, "user", EmptyDict),
                                         "username", "unknown")
                        text == Get(comment_data, "text_content", "")
                        comment_id == Get(comment_data, "id", "unknown")
                        fingerprint == "comment_id=" \o comment_id
                        context == [commenter |-> commenter,
                                    body_preview |-> Prefix(text, 100)]
                    IN IF Contains(Lower(text), "@ivan")
                          \/ Contains(Lower(text), "ivan")
                       THEN << Event(MENTIONED, task_id, fingerprint, context) >>
                       ELSE << Event(COMMENT_ON_OWNED, task_id, fingerprint,
                                     context) >>
               ELSE <<>>

parse_webhook_event(source, event_type, payload) ==
    IF source = "github" THEN _parse_github_webhook(event_type, payload)
    ELSE IF source = "clickup" THEN _parse_clickup_webhook(event_type, payload)
    ELSE <<>>

(***************************************************************************)
(* event_detector.py: where the parsers raise.  A delivered payload is a   *)
(* dict together with the paths whose key is present with the JSON value   *)
(* null; the dict holds no entry for such a path, except history_items,    *)
(* for which null acts as the empty list.  Of a null the code reads        *)
(* .get(...), .lower() or "in": AttributeError or TypeError.               *)
(***************************************************************************)
_parse_github_webhook_raises(event_type, payload, nulls) ==
    /\ event_type = "issue_comment"
    /\ Get(payload, "action", None) = "created"
    /\ \/ "issue" \in nulls
       \/ "comment" \in nulls
       \/ "comment" \in DOMAIN payload
             /\ ("comment.user" \in nulls \/ "comment.body" \in nulls)

_parse_clickup_webhook_raises(event_type, payload, nulls) ==
    LET direct == Get(payload, "task_id", None)
    IN \/ (direct = None \/ direct = "") /\ "task" \in nulls
       \/ /\ ~ ((direct = None \/ direct = "") /\ "task" \in nulls)
          /\ ClickupTaskIdRaw(payload) \notin {None, ""}
          /\ event_type = "taskCommentPosted"
          /\ Len(Get(payload, "history_items", << EmptyDict >>)) > 0
          /\ \/ "history_items.0" \in nulls
             \/ "comment" \in nulls
             \/ "comment" \in DOMAIN Get(payload, "history_items",
                                         << EmptyDict >>)[1]
                   /\ ("comment.user" \in nulls
                       \/ "comment.text_content" \in nulls)

\* the outcome of one call: the exception flag and the returned event
parse_webhook_event_call(source, event_type, payload, nulls) ==
    IF \/ source = "github"
          /\ _parse_github_webhook_raises(event_type, payload, nulls)
       \/ source = "clickup"
          /\ _parse_clickup_webhook_raises(event_type, payload, nulls)
    THEN [raised |-> TRUE, event |-> <<>>]
    ELSE [raised |-> FALSE,
          event |-> parse_webhook_event(source, event_type, payload)]

(***************************************************************************)
(* State.                                                                  *)
(***************************************************************************)
VARIABLES
    today,             \* date.today(), as a day number
    tasks,             \* table tasks: id -> row
    config,            \* notification_config._config
    notification_log,  \* table notification_log: the stored message hashes
    next_comment,      \* id the tracker gives to the next comment
    delivered,         \* history: dedupe key -> Slack deliveries (1, or 2 for more)
    committed,         \* history: task id -> events recorded by update_notification_state
    last,              \* history: what the last handler did
    handlers,          \* the coroutines of the event loop: position and session
    digest_state,      \* the DigestState row: None until the first digest run
    parsed,            \* history: the last call of parse_webhook_event
    settings,          \* the deployment: webhook secrets, notifications.yaml
    response,          \* history: the last webhook request and its status code
    retry              \* _sync_with_retry: position, loop index and what it met

vars ==
    <<today, tasks, config, notification_log, next_comment, delivered,
      committed, last, handlers, digest_state, parsed, settings, response,
      retry>>

Days == 0..MaxDay

TaskIds == {"github:1", "clickup:1"}

Titles == {"Ship it", "Ship it now"}

BlockedByValues == {<<>>, <<"github:7">>, <<"github:7", "github:8">>}

Scores == {100, 500}

SourceOf(id) == IF SubSeq(id, 1, 6) = "github" THEN "github" ELSE "clickup"

\* a row as _sync_source inserts it; notification_state takes the column default
NewRow(id, due) ==
    [id |-> id, source |-> SourceOf(id), title |-> "Ship it", url |-> "u",
     status |-> "todo", assignee |-> "ivan", due_date |-> due,
     blocked_by |-> <<>>, score |-> 100, notification_state |-> EmptyDict,
     is_revenue |-> FALSE, is_blocking |-> <<>>, last_activity |-> NoDate]

Configs ==
    {DefaultConfig,
     [DefaultConfig EXCEPT !.mode = "off"],
     [mode |-> "full", threshold |-> 0,
      triggers |-> [t \in VALID_TRIGGERS |-> TRUE]],
     [DefaultConfig EXCEPT !.triggers["overdue"] = FALSE]}

NoEvent == Event("none", "", "", EmptyDict)

\* config.py: both secrets default to the empty string; notifications_yaml
\* is the file config/notifications.yaml of the deployment: whether it
\* exists, whether yaml.safe_load reads it, the mapping it holds (threshold
\* as written) and the keys of it whose value has the wrong type
DefaultSettings ==
    [github_webhook_secret |-> "", clickup_webhook_secret |-> "",
     notifications_yaml |-> [exists |-> FALSE, readable |-> TRUE,
                             data |-> EmptyDict, ill_typed |-> {}]]

\* no call of _sync_with_retry under way
NoRetry ==
    [pc |-> "idle", attempt |-> 0, calls |-> 0, delays |-> <<>>,
     errors |-> <<>>, last_exception |-> <<>>, raised |-> <<>>]

\* no webhook request yet
NoRequest ==
    [source |-> "", body |-> "", signature |-> "", status_code |-> 0]

\* no call of parse_webhook_event yet
NotParsed ==
    [source |-> "", event_type |-> "", payload |-> EmptyDict, missing |-> {},
     nulls |-> {}, called |-> FALSE, raised |-> FALSE, event |-> <<>>]

Idle ==
    [op |-> "none", detected |-> {}, sent |-> {}, failed |-> {}, polled |-> {},
     event |-> NoEvent, result |-> FALSE]

Procs == {"poll", "wh1", "wh2"}

\* a coroutine that is not running: pc is its position, row the task its
\* session loaded, events the events it works on, i the index of the next
\* one, ok the result of its last send, rows the ids its query returned
IdleHandler ==
    [pc |-> "idle", id |-> "", row |-> EmptyDict, events |-> <<>>, i |-> 1,
     notified |-> FALSE, ok |-> FALSE, comment |-> 0, rows |-> <<>>]

IdleHandlers == [p \in Procs |-> IdleHandler]

Keys(events) == {dedupe_key(events[i]) : i \in 1..Len(events)}

Bump(d, keys) ==
    [k \in (DOMAIN d) \cup keys |->
        IF k \in keys THEN (IF k \in DOMAIN d THEN 2 ELSE 1) ELSE d[k]]

(***************************************************************************)
(* main.py: scheduled_sync                                                 *)
(***************************************************************************)
\* the loop "for event in events" of scheduled_sync from its i-th event on;
\* acc holds the task, NotificationLog, the notified flag and the history
RECURSIVE PollEvents(_, _, _, _, _, _, _)
PollEvents(events, i, acc, cfg, quiet, slack_fail, commit_day) ==
    IF i > Len(events) THEN acc
    ELSE LET event == events[i]
         IN IF should_notify(cfg, event, acc.task)
            THEN LET r == send_event_notification(
                              acc.log, quiet, event.trigger \notin slack_fail,
                              event, acc.task)
                 IN IF r.ok
                    THEN PollEvents(events, i + 1,
                            [acc EXCEPT
                               !.task = update_notification_state(
                                            acc.task, event, commit_day),
                               !.log = r.log,
                               !.notified = TRUE,
                               !.sent = Append(acc.sent, event)],
                            cfg, quiet, slack_fail, commit_day)
                    ELSE PollEvents(events, i + 1,
                            [acc EXCEPT !.failed = Append(acc.failed, event)],
                            cfg, quiet, slack_fail, commit_day)
            ELSE PollEvents(events, i + 1, acc, cfg, quiet, slack_fail,
                            commit_day)

\* variant: the snapshot is refreshed only when no event was detected
PollTask_touch_without_events(task, log, cfg, day, commit_day, quiet, slack_fail) ==
    LET events == detect_from_sync(task, day)
        acc == PollEvents(events, 1,
                   [task |-> task, log |-> log, notified |-> FALSE,
                    sent |-> <<>>, failed |-> <<>>],
                   cfg, quiet, slack_fail, commit_day)
    IN [task |-> IF Len(events) = 0 THEN update_prev_state_only(acc.task)
                 ELSE acc.task,
        log |-> acc.log, detected |-> events, sent |-> acc.sent,
        failed |-> acc.failed]

\* the body of "for task in tasks" of scheduled_sync
PollTask(task, log, cfg, day, commit_day, quiet, slack_fail) ==
    LET events == detect_from_sync(task, day)
        acc == PollEvents(events, 1,
                   [task |-> task, log |-> log, notified |-> FALSE,
                    sent |-> <<>>, failed |-> <<>>],
                   cfg, quiet, slack_fail, commit_day)
    IN [task |-> IF ~ acc.notified THEN update_prev_state_only(acc.task)
                 ELSE acc.task,
        log |-> acc.log, detected |-> events, sent |-> acc.sent,
        failed |-> acc.failed]

\* db.query(Task).filter(Task.status != "done", Task.assignee == "ivan")
PollQuery(tbl) ==
    {id \in DOMAIN tbl : tbl[id].status # "done" /\ tbl[id].assignee = "ivan"}

RECURSIVE PollAll(_, _, _, _, _, _, _)
PollAll(ids, acc, cfg, day, commit_day, quiet, slack_fail) ==
    IF ids = {} THEN acc
    ELSE LET id == CHOOSE x \in ids : TRUE
             r == PollTask(acc.tasks[id], acc.log, cfg, day, commit_day,
                           quiet, slack_fail)
         IN PollAll(ids \ {id},
                [tasks |-> [acc.tasks EXCEPT ![id] = r.task],
                 log |-> r.log,
                 detected |-> acc.detected \cup Keys(r.detected),
                 sent |-> acc.sent \cup Keys(r.sent),
                 failed |-> acc.failed \cup Keys(r.failed),
                 committed |-> [acc.committed EXCEPT
                                   ![id] = acc.committed[id] \o r.sent]],
                cfg, day, commit_day, quiet, slack_fail)

(***************************************************************************)
(* syncer.py: what one sync_all_sources can leave in a row                 *)
(***************************************************************************)
SyncStatuses(source) ==
    IF source = "github" THEN {"todo", "done"}
    ELSE {"todo", "in_progress", "done"}

\* the row after the upsert of _sync_source: unchanged when the source failed
\* or did not return the task, else the converted task copied over it.  env
\* bounds the values the tracker shows; at most one tracker field differs
\* from the previous sync.
\* the upsert with the converted task's empty notification_state copied too
SyncedRows_state_copied(row, env) ==
    LET base == [row EXCEPT !.assignee = "ivan",
                            !.notification_state = <<>>,
                            !.due_date = IF row.source = "github" THEN NoDate
                                         ELSE row.due_date]
    IN {row, base}
       \cup {[base EXCEPT !.status = s] :
                s \in SyncStatuses(row.source) \cap env.statuses}
       \cup {[base EXCEPT !.title = t] : t \in env.titles}
       \cup {[base EXCEPT !.blocked_by = b] : b \in env.blocked}
       \cup (IF row.source = "github" THEN {}
             ELSE {[base EXCEPT !.due_date = d] : d \in env.dues})

SyncedRows(row, env) ==
    LET base == [row EXCEPT !.assignee = "ivan",
                            !.due_date = IF row.source = "github" THEN NoDate
                                         ELSE row.due_date]
    IN {row, base}
       \cup {[base EXCEPT !.status = s] :
                s \in SyncStatuses(row.source) \cap env.statuses}
       \cup {[base EXCEPT !.title = t] : t \in env.titles}
       \cup {[base EXCEPT !.blocked_by = b] : b \in env.blocked}
       \cup (IF row.source = "github" THEN {}
             ELSE {[base EXCEPT !.due_date = d] : d \in env.dues})

sync_all_sources(env) ==
    /\ \E id \in DOMAIN tasks : \E row \in SyncedRows(tasks[id], env) :
          /\ row # tasks[id]
          /\ tasks' = [tasks EXCEPT ![id] = row]
    /\ last' = [Idle EXCEPT !.op = "sync_all_sources"]
    /\ UNCHANGED <<today, config, notification_log, next_comment, delivered,
                   committed, handlers,
                   digest_state, parsed, settings,
                   response,
                   retry>>

\* the triggers of the events detect_from_sync finds in the polled rows
Candidates(tbl, polled, day) ==
    UNION {{detect_from_sync(tbl[t], day)[i].trigger :
               i \in 1..Len(detect_from_sync(tbl[t], day))} : t \in polled}

\* quiet: the cycle runs in quiet hours; slack_fail: the triggers whose Slack
\* call fails; commit_day: date.today() once the first message was sent
scheduled_sync(env) ==
    \E id \in DOMAIN tasks : \E row \in SyncedRows(tasks[id], env) :
    \E quiet \in BOOLEAN :
    \E commit_day \in {today} \cup (IF env.midnight THEN {Min(today + 1, MaxDay)}
                                                   ELSE {}) :
       LET synced == [tasks EXCEPT ![id] = row]
           polled == PollQuery(synced)
       IN \E slack_fail \in SUBSET Candidates(synced, polled, today) :
             LET r == PollAll(polled,
                         [tasks |-> synced, log |-> notification_log,
                          detected |-> {}, sent |-> {}, failed |-> {},
                          committed |-> committed],
                         config, today, commit_day, quiet, slack_fail)
             IN /\ tasks' = r.tasks
                /\ notification_log' = r.log
                /\ today' = commit_day
                /\ delivered' = Bump(delivered, r.sent)
                /\ committed' = r.committed
                /\ last' = [Idle EXCEPT !.op = "scheduled_sync",
                                         !.detected = r.detected,
                                         !.sent = r.sent, !.failed = r.failed,
                                         !.polled = polled]
                /\ UNCHANGED <<config, next_comment, handlers,
                   digest_state, parsed, settings,
                   response,
                   retry>>

(***************************************************************************)
(* The other writers of a task row, the clock and the process start.       *)
(***************************************************************************)
\* slack_actions.py handle_delegate_submit: task.assignee = person_key
delegate ==
    /\ \E id \in DOMAIN tasks : \E person \in {"attila", "tamas"} :
          /\ tasks[id].assignee # person
          /\ ~ (tasks[id].source = "github" /\ person = "tamas")
          /\ tasks' = [tasks EXCEPT ![id].assignee = person]
    /\ last' = [Idle EXCEPT !.op = "delegate"]
    /\ UNCHANGED <<today, config, notification_log, next_comment, delivered,
                   committed, handlers,
                   digest_state, parsed, settings,
                   response,
                   retry>>

DeferDays == {1, 2}

\* slack_actions.py handle_defer_submit: task.due_date = now + days
defer ==
    /\ \E id \in DOMAIN tasks : \E days \in DeferDays :
          /\ today + days <= MaxDay
          /\ tasks[id].due_date # today + days
          /\ tasks' = [tasks EXCEPT ![id].due_date = today + days]
    /\ last' = [Idle EXCEPT !.op = "defer"]
    /\ UNCHANGED <<today, config, notification_log, next_comment, delivered,
                   committed, handlers,
                   digest_state, parsed, settings,
                   response,
                   retry>>

\* scorer.py score_and_sort_tasks: task.score = calculate_score(task)
rescore ==
    /\ \E id \in DOMAIN tasks : \E sc \in Scores :
          /\ tasks[id].score # sc
          /\ tasks' = [tasks EXCEPT ![id].score = sc]
    /\ last' = [Idle EXCEPT !.op = "rescore"]
    /\ UNCHANGED <<today, config, notification_log, next_comment, delivered,
                   committed, handlers,
                   digest_state, parsed, settings,
                   response,
                   retry>>

\* get_notification_config in a started process: the file's config is cached
get_notification_config ==
    /\ \E c \in Configs : c # config /\ config' = c
    /\ last' = [Idle EXCEPT !.op = "get_notification_config"]
    /\ UNCHANGED <<today, tasks, notification_log, next_comment, delivered,
                   committed, handlers,
                   digest_state, parsed, settings,
                   response,
                   retry>>

Tick ==
    /\ today < MaxDay
    /\ today' = today + 1
    /\ last' = [Idle EXCEPT !.op = "tick"]
    /\ UNCHANGED <<tasks, config, notification_log, next_comment, delivered,
                   committed, handlers,
                   digest_state, parsed, settings,
                   response,
                   retry>>

Init ==
    /\ today = 0
    /\ \E due \in {NoDate, 1} :
          tasks = [id \in {"clickup:1"} |-> NewRow(id, due)]
    /\ config = DefaultConfig
    /\ notification_log = {}
    /\ next_comment = 1
    /\ delivered = EmptyDict
    /\ committed = [id \in DOMAIN tasks |-> <<>>]
    /\ last = Idle
    /\ handlers = IdleHandlers
    /\ digest_state = None
    /\ parsed = NotParsed
    /\ settings = DefaultSettings
    /\ response = NoRequest
    /\ retry = NoRetry

\* the tracker values of the polling specification
PollEnv ==
    [statuses |-> {"todo", "done"}, titles |-> {},
     blocked |-> {<<>>, <<"github:7">>}, dues |-> {}, midnight |-> FALSE]

Next ==
    \/ scheduled_sync(PollEnv)
    \/ sync_all_sources(PollEnv)
    \/ delegate
    \/ defer
    \/ rescore
    \/ get_notification_config

Spec == Init /\ [][Next]_vars

\* the tracker values of the due-date specification
DueEnv ==
    [statuses |-> {}, titles |-> {}, blocked |-> {}, dues |-> Days \cup {NoDate},
     midnight |-> TRUE]

NextDue ==
    \/ scheduled_sync(DueEnv)
    \/ sync_all_sources(DueEnv)
    \/ defer
    \/ Tick

SpecDue == Init /\ [][NextDue]_vars
(***************************************************************************)
(* main.py: webhook receivers                                              *)
(***************************************************************************)
\* the comment branch shared by github_webhook (lines 933-939) and
\* clickup_webhook (lines 1002-1006): evt is the parsed event (a list), id the
\* queried task id.  The result is what the handler leaves behind.
WebhookComment(op, evt, id, quiet, slack_ok) ==
    IF evt # <<>> /\ id \in DOMAIN tasks /\ should_notify(config, evt[1], tasks[id])
    THEN LET r == send_event_notification(notification_log, quiet, slack_ok,
                                          evt[1], tasks[id])
             k == dedupe_key(evt[1])
         IN /\ tasks' = [tasks EXCEPT
                            ![id] = update_notification_state(tasks[id], evt[1],
                                                              today)]
            /\ notification_log' = r.log
            /\ delivered' = IF r.ok THEN Bump(delivered, {k}) ELSE delivered
            /\ committed' = [committed EXCEPT ![id] = Append(committed[id], evt[1])]
            /\ last' = [Idle EXCEPT !.op = op, !.detected = {k},
                                    !.sent = IF r.ok THEN {k} ELSE {},
                                    !.failed = IF r.ok THEN {} ELSE {k},
                                    !.polled = {id}]
    ELSE /\ last' = [Idle EXCEPT !.op = op, !.detected = Keys(evt)]
         /\ UNCHANGED <<tasks, notification_log, delivered, committed,
                   retry>>

\* POST /webhooks/github with a verified signature
github_webhook(event, payload, quiet, slack_ok) ==
    LET action == Get(payload, "action", "")
        issue == Get(payload, "issue", EmptyDict)
        id == "github:" \o ToString(Get(issue, "number", ""))
    IN IF event = "issues"
       THEN /\ id \in DOMAIN tasks
            /\ action \in {"closed", "reopened", "edited"}
            /\ tasks' = [tasks EXCEPT ![id] =
                   CASE action = "closed" -> [@ EXCEPT !.status = "done"]
                     [] action = "reopened" -> [@ EXCEPT !.status = "todo"]
                     [] OTHER -> [@ EXCEPT !.title = Get(issue, "title", @.title)]]
            /\ last' = [Idle EXCEPT !.op = "github_webhook"]
            /\ UNCHANGED <<notification_log, delivered, committed,
                   retry>>
       ELSE /\ event = "issue_comment" /\ action = "created"
            /\ WebhookComment("github_webhook",
                              parse_webhook_event("github", event, payload),
                              id, quiet, slack_ok)

\* POST /webhooks/clickup with a verified signature
clickup_webhook(payload, quiet, slack_ok) ==
    LET event == Get(payload, "event", "")
        task_data == ClickupTaskIdRaw(payload)
        id == "clickup:" \o task_data
    IN /\ task_data # None /\ task_data # ""
       /\ IF event = "taskStatusUpdated"
          THEN LET history == Get(payload, "history_items", << EmptyDict >>)
                   new_status == Get(Get(history[1], "after", EmptyDict),
                                     "status", "")
               IN /\ id \in DOMAIN tasks /\ Len(history) > 0
                  /\ tasks' = [tasks EXCEPT ![id].status =
                                  IF Lower(new_status) \in {"complete", "closed", "done"}
                                  THEN "done" ELSE "todo"]
                  /\ last' = [Idle EXCEPT !.op = "clickup_webhook"]
                  /\ UNCHANGED <<notification_log, delivered, committed,
                   retry>>
          ELSE /\ event = "taskCommentPosted"
               /\ WebhookComment("clickup_webhook",
                                 parse_webhook_event("clickup", event, payload),
                                 id, quiet, slack_ok)

(***************************************************************************)
(* The trackers' webhook deliveries.                                       *)
(***************************************************************************)
\* the text of comment c: every tenth comment does not mention the user
CommentBody(c) == IF c % 10 = 0 THEN "lgtm" ELSE "@ivanivanka ping"

GithubCommentPayload(c) ==
    [action |-> "created",
     comment |-> [id |-> c, body |-> CommentBody(c), user |-> [login |-> "atiti"]],
     issue |-> [number |-> 1, assignee |-> [login |-> "ivanivanka"]]]

ClickupCommentPayload(c) ==
    [event |-> "taskCommentPosted", task_id |-> "1",
     history_items |->
        << [comment |-> [id |-> ToString(c), text_content |-> CommentBody(c),
                         user |-> [username |-> "tamas"]]] >>]

\* comments whose webhook the tracker delivers again
RedeliveredComments == {1}

\* a new comment, or the redelivery of an earlier one
CommentDeliveries ==
    (IF next_comment <= MaxComment THEN {next_comment} ELSE {})
    \cup {c \in RedeliveredComments : c < next_comment}

NextCommentAfter(c) == IF c = next_comment THEN next_comment + 1 ELSE next_comment

\* quiets and slack_oks bound the send conditions of the delivery
github_comment_webhook(quiets, slack_oks) ==
    \E c \in CommentDeliveries : \E quiet \in quiets : \E slack_ok \in slack_oks :
        /\ "github:1" \in DOMAIN tasks
        /\ github_webhook("issue_comment", GithubCommentPayload(c), quiet, slack_ok)
        /\ next_comment' = NextCommentAfter(c)
        /\ UNCHANGED <<today, config, handlers,
                   digest_state, parsed, settings,
                   response,
                   retry>>

\* actions bounds the issue actions the tracker reports
github_issues_webhook(actions) ==
    \E action \in actions : \E title \in Titles :
        LET payload == [action |-> action, issue |-> [number |-> 1, title |-> title]]
        IN /\ "github:1" \in DOMAIN tasks
           /\ action = "closed" => tasks["github:1"].status # "done"
           /\ action = "reopened" => tasks["github:1"].status # "todo"
           /\ action = "edited" => tasks["github:1"].title # title
           /\ github_webhook("issues", payload, FALSE, TRUE)
           /\ UNCHANGED <<today, config, next_comment, handlers,
                   digest_state, parsed, settings,
                   response,
                   retry>>

clickup_comment_webhook(quiets, slack_oks) ==
    \E c \in CommentDeliveries : \E quiet \in quiets : \E slack_ok \in slack_oks :
        /\ "clickup:1" \in DOMAIN tasks
        /\ clickup_webhook(ClickupCommentPayload(c), quiet, slack_ok)
        /\ next_comment' = NextCommentAfter(c)
        /\ UNCHANGED <<today, config, handlers,
                   digest_state, parsed, settings,
                   response,
                   retry>>

InitLedger ==
    /\ today = 0
    /\ \E id \in TaskIds :
          tasks = [i \in {id} |-> [NewRow(i, NoDate) EXCEPT !.score = 500]]
    /\ config = DefaultConfig
    /\ notification_log = {}
    /\ next_comment = 1
    /\ delivered = EmptyDict
    /\ committed = [id \in DOMAIN tasks |-> <<>>]
    /\ last = Idle
    /\ handlers = IdleHandlers
    /\ digest_state = None
    /\ parsed = NotParsed
    /\ settings = DefaultSettings
    /\ response = NoRequest
    /\ retry = NoRetry

NextLedger ==
    \/ github_comment_webhook({FALSE}, {TRUE})
    \/ github_issues_webhook({"edited"})
    \/ clickup_comment_webhook({FALSE}, {TRUE})

SpecLedger == InitLedger /\ [][NextLedger]_vars

(***************************************************************************)
(* should_notify on its own: every config, score and ledger of a bounded   *)
(* family, every trigger.                                                  *)
(***************************************************************************)
FilterTriggerMaps ==
    {DEFAULT_TRIGGERS, [t \in VALID_TRIGGERS |-> TRUE],
     [t \in VALID_TRIGGERS |-> FALSE]}
    \cup {[t \in VALID_TRIGGERS |-> t # off] : off \in VALID_TRIGGERS}

FilterConfigs ==
    {[mode |-> m, threshold |-> th, triggers |-> tr] :
        m \in {"focus", "full", "off"}, th \in {0, 500}, tr \in FilterTriggerMaps}

FilterScores == {499, 500, 501}

FilterEvents ==
    {Event(tr, "clickup:1", fp, EmptyDict) : tr \in EventType, fp \in {"a", "b"}}

FilterStates ==
    {EmptyDict, [dedupe_keys |-> <<>>]}
    \cup {[dedupe_keys |-> << dedupe_key(e) >>] : e \in FilterEvents}

InitFilter ==
    /\ today = 0
    /\ \E sc \in FilterScores : \E st \in FilterStates :
          tasks = [i \in {"clickup:1"} |->
                      [NewRow(i, NoDate) EXCEPT !.score = sc,
                                                !.notification_state = st]]
    /\ config \in FilterConfigs
    /\ notification_log = {}
    /\ next_comment = 1
    /\ delivered = EmptyDict
    /\ committed = [id \in DOMAIN tasks |-> <<>>]
    /\ last = Idle
    /\ handlers = IdleHandlers
    /\ digest_state = None
    /\ parsed = NotParsed
    /\ settings = DefaultSettings
    /\ response = NoRequest
    /\ retry = NoRetry

evaluate_should_notify ==
    /\ \E e \in FilterEvents :
          last' = [Idle EXCEPT !.op = "should_notify", !.event = e,
                               !.result = should_notify(config, e,
                                                        tasks["clickup:1"])]
    /\ UNCHANGED <<today, tasks, config, notification_log, next_comment,
                   delivered, committed, handlers,
                   digest_state, parsed, settings,
                   response,
                   retry>>

NextFilter == evaluate_should_notify

SpecFilter == InitFilter /\ [][NextFilter]_vars

(***************************************************************************)
(* notification_state.py on its own: one call of either function on a      *)
(* task whose notification_state is any of a bounded family.               *)
(***************************************************************************)
\* the dicts a row can hold: no ledger, an empty one, one or two keys, with
\* or without either marker, with or without a snapshot
StoredStates ==
    LET k1 == "mentioned:clickup:1:comment_id=1"
        k2 == "assigned:clickup:1:assignee=ivan"
        ledgers == {EmptyDict} \cup {[dedupe_keys |-> l] :
                                        l \in {<<>>, <<k1>>, <<k2, k1>>}}
        deadlines == UNION {{s} \cup {Put(s, "last_deadline_notified", m) :
                                         m \in {"24h", "2h"}} : s \in ledgers}
        overdues == UNION {{s, Put(s, "last_overdue_notified", StrDate(0))} :
                              s \in deadlines}
    IN UNION {{s, Put(Put(Put(s, "prev_status", "blocked"),
                          "prev_assignee", "attila"),
                      "prev_blocked_by", <<"github:7">>)} : s \in overdues}

\* an event of every trigger; a deadline warning has one of its two
\* fingerprints, an overdue event that of the day
StoredEvents(day) ==
    {Event(tr, "clickup:1", fp, EmptyDict) :
        tr \in EventType \ {DEADLINE_WARNING, OVERDUE}, fp \in {"f"}}
    \cup {Event(DEADLINE_WARNING, "clickup:1", fp, EmptyDict) :
             fp \in {"24h", "2h"}}
    \cup {Event(OVERDUE, "clickup:1", "overdue:" \o StrDate(day), EmptyDict)}

call_update_notification_state ==
    /\ last.op = "none"
    /\ \E e \in StoredEvents(today) :
          /\ tasks' = [t \in DOMAIN tasks |->
                          update_notification_state(tasks[t], e, today)]
          /\ last' = [Idle EXCEPT !.op = "update_notification_state",
                                   !.event = e]
    /\ UNCHANGED <<today, config, notification_log, next_comment, delivered,
                   committed, handlers, digest_state, parsed, settings,
                   response,
                   retry>>

call_update_prev_state_only ==
    /\ last.op = "none"
    /\ tasks' = [t \in DOMAIN tasks |-> update_prev_state_only(tasks[t])]
    /\ last' = [Idle EXCEPT !.op = "update_prev_state_only"]
    /\ UNCHANGED <<today, config, notification_log, next_comment, delivered,
                   committed, handlers, digest_state, parsed, settings,
                   response,
                   retry>>

InitStored ==
    /\ today \in {1, 2}
    /\ \E st \in StoredStates :
          tasks = [i \in {"clickup:1"} |->
                      [NewRow(i, 0) EXCEPT !.notification_state = st]]
    /\ config = DefaultConfig
    /\ notification_log = {}
    /\ next_comment = 1
    /\ delivered = EmptyDict
    /\ committed = [id \in DOMAIN tasks |-> <<>>]
    /\ last = Idle
    /\ handlers = IdleHandlers
    /\ digest_state = None
    /\ parsed = NotParsed
    /\ settings = DefaultSettings
    /\ response = NoRequest
    /\ retry = NoRetry

NextStored == call_update_notification_state \/ call_update_prev_state_only

SpecStored == InitStored /\ [][NextStored]_vars

\* the upsert of _sync_source on rows that hold every kind of stored state
NextUpsert ==
    \/ sync_all_sources(PollEnv)
    \/ sync_all_sources(DueEnv)

SpecUpsert == InitStored /\ [][NextUpsert]_vars

(***************************************************************************)
(* syncer.py: _sync_with_retry as a coroutine.  pc is "try" in front of    *)
(* "await syncer.sync()", "sleep" inside "await asyncio.sleep(delay)",     *)
(* "returned" or "raised" when the call is over.  An exception is its      *)
(* class and, for httpx.HTTPStatusError, the status code of the response.  *)
(***************************************************************************)
MAX_RETRIES == 3

BASE_DELAY_SECONDS == 1

MAX_DELAY_SECONDS == 30

\* variant: a missing list or repository is retried as well
RETRYABLE_ERRORS_with_not_found ==
    {"timeout", "connection_error", "server_error", "rate_limit", "not_found"}

RETRYABLE_ERRORS ==
    {"timeout", "connection_error", "server_error", "rate_limit"}

\* what syncer.sync() may raise; ConnectTimeout is a TimeoutException,
\* both it and ConnectError are RequestErrors
SyncExceptions ==
    {[class |-> "HTTPStatusError", status |-> s] :
        s \in {400, 401, 403, 404, 429, 503}}
    \cup {[class |-> c, status |-> 0] :
             c \in {"TimeoutException", "ConnectError", "RequestError",
                    "ValueError"}}

\* the error type of the returned pair
_categorize_error(e) ==
    IF e.class = "HTTPStatusError"
    THEN IF e.status = 401 THEN "auth_error"
         ELSE IF e.status = 403 THEN "permission_error"
         ELSE IF e.status = 404 THEN "not_found"
         ELSE IF e.status = 429 THEN "rate_limit"
         ELSE IF e.status >= 500 THEN "server_error"
         ELSE "http_error"
    ELSE IF e.class = "TimeoutException" THEN "timeout"
    ELSE IF e.class = "ConnectError" THEN "connection_error"
    ELSE IF e.class = "RequestError" THEN "request_error"
    ELSE "unknown_error"

\* one pass of "try: return await syncer.sync() except Exception as e: ..."
\* up to the return, the raise or the call of asyncio.sleep
sync_attempt ==
    /\ retry.pc = "try"
    /\ \/ retry' = [retry EXCEPT !.pc = "returned", !.calls = @ + 1]
       \/ \E e \in SyncExceptions :
             LET error_type == _categorize_error(e)
                 met == [retry EXCEPT !.calls = @ + 1,
                                      !.errors = Append(@, e),
                                      !.last_exception = <<e>>]
                 delay == Min(BASE_DELAY_SECONDS * (2 ^ retry.attempt),
                              MAX_DELAY_SECONDS)
             IN retry' = IF error_type \notin RETRYABLE_ERRORS
                         THEN [met EXCEPT !.pc = "raised", !.raised = <<e>>]
                         ELSE [met EXCEPT !.pc = "sleep",
                                          !.delays = Append(@, delay)]
    /\ UNCHANGED <<today, tasks, config, notification_log, next_comment,
                   delivered, committed, last, handlers, digest_state, parsed,
                   settings, response>>

\* asyncio.sleep returns: the next pass of "for attempt in
\* range(MAX_RETRIES)", or "raise last_exception" after the last one
backoff_sleep ==
    /\ retry.pc = "sleep"
    /\ retry' = IF retry.attempt + 1 < MAX_RETRIES
                THEN [retry EXCEPT !.pc = "try", !.attempt = @ + 1]
                ELSE [retry EXCEPT !.pc = "raised",
                                   !.raised = retry.last_exception]
    /\ UNCHANGED <<today, tasks, config, notification_log, next_comment,
                   delivered, committed, last, handlers, digest_state, parsed,
                   settings, response>>

InitRetry ==
    /\ today = 0
    /\ tasks = [id \in {"clickup:1"} |-> NewRow(id, NoDate)]
    /\ config = DefaultConfig
    /\ notification_log = {}
    /\ next_comment = 1
    /\ delivered = EmptyDict
    /\ committed = [id \in DOMAIN tasks |-> <<>>]
    /\ last = Idle
    /\ handlers = IdleHandlers
    /\ digest_state = None
    /\ parsed = NotParsed
    /\ settings = DefaultSettings
    /\ response = NoRequest
    /\ retry = [NoRetry EXCEPT !.pc = "try"]

NextRetry ==
    \/ sync_attempt
    \/ backoff_sleep

\* the event loop resumes the coroutine when the awaited call is over
SpecRetry == InitRetry /\ [][NextRetry]_vars /\ WF_vars(NextRetry)

(***************************************************************************)
(* The handlers as coroutines of one event loop.  A coroutine runs until   *)
(* it reaches an await that suspends; only then can another one run.       *)
(***************************************************************************)
MaxConcComment == 2

\* variant: send_dm awaits the Slack call and so suspends its caller
SendDmSuspends_awaits == TRUE

\* send_dm calls the synchronous WebClient and awaits nothing, so
\* "await notifier.send_event_notification(...)" never suspends
SendDmSuspends == FALSE

ConcId == "clickup:1"

\* the positions at which a coroutine has given the loop to the others
Suspended(h) ==
    \/ h.pc \in {"idle", "awaiting"}
    \/ h.pc = "sending" /\ SendDmSuspends

CanRun(p) == \A q \in Procs \ {p} : Suspended(handlers[q])

\* variant: notification_state is an attribute of the loaded object only
Flush_in_memory(tbl, row) == tbl

\* db.commit(): the UPDATE writes the column the session changed
Flush(tbl, row) ==
    [tbl EXCEPT ![row.id].notification_state = row.notification_state]

ConcEnv ==
    [statuses |-> {}, titles |-> {}, blocked |-> {}, dues |-> {},
     midnight |-> FALSE]

\* scheduled_sync up to "await sync_all_sources()"
poll_begin ==
    /\ handlers["poll"].pc = "idle"
    /\ CanRun("poll")
    /\ handlers' = [handlers EXCEPT !["poll"].pc = "awaiting"]
    /\ UNCHANGED <<today, tasks, config, notification_log, next_comment,
                   delivered, committed, last,
                   digest_state, parsed, settings,
                   response,
                   retry>>

\* the sync has finished: the query and detect_from_sync
poll_load ==
    /\ handlers["poll"].pc = "awaiting"
    /\ CanRun("poll")
    /\ \E row \in SyncedRows(tasks[ConcId], ConcEnv) :
          LET synced == [tasks EXCEPT ![ConcId] = row]
          IN /\ tasks' = synced
             /\ handlers' = [handlers EXCEPT !["poll"] =
                   IF ConcId \in PollQuery(synced)
                   THEN [IdleHandler EXCEPT
                            !.pc = "loop", !.id = ConcId, !.row = row,
                            !.events = detect_from_sync(row, today)]
                   ELSE IdleHandler]
    /\ UNCHANGED <<today, config, notification_log, next_comment, delivered,
                   committed, last,
                   digest_state, parsed, settings,
                   response,
                   retry>>

\* "for event in events": should_notify and the call of send_event_notification
poll_send ==
    LET h == handlers["poll"]
    IN /\ h.pc = "loop" /\ h.i <= Len(h.events)
       /\ CanRun("poll")
       /\ IF should_notify(config, h.events[h.i], h.row)
          THEN \E slack_ok \in BOOLEAN :
                  LET r == send_event_notification(notification_log, FALSE,
                                                   slack_ok, h.events[h.i], h.row)
                  IN /\ notification_log' = r.log
                     /\ delivered' = IF r.ok
                                     THEN Bump(delivered,
                                               {dedupe_key(h.events[h.i])})
                                     ELSE delivered
                     /\ handlers' = [handlers EXCEPT
                                        !["poll"].pc = "sending",
                                        !["poll"].ok = r.ok]
          ELSE /\ handlers' = [handlers EXCEPT !["poll"].i = h.i + 1]
               /\ UNCHANGED <<notification_log, delivered,
                   retry>>
       /\ UNCHANGED <<today, tasks, config, next_comment, committed, last,
                   digest_state, parsed, settings,
                   response,
                   retry>>

\* the send has returned: "if success: update_notification_state(task, event)"
poll_resume ==
    LET h == handlers["poll"]
    IN /\ h.pc = "sending"
       /\ CanRun("poll")
       /\ handlers' = [handlers EXCEPT !["poll"] =
             [h EXCEPT !.pc = "loop", !.i = h.i + 1,
                       !.notified = h.notified \/ h.ok,
                       !.row = IF h.ok
                               THEN update_notification_state(h.row,
                                        h.events[h.i], today)
                               ELSE h.row]]
       /\ committed' = IF h.ok
                       THEN [committed EXCEPT
                                ![h.id] = Append(committed[h.id], h.events[h.i])]
                       ELSE committed
       /\ UNCHANGED <<today, tasks, config, notification_log, next_comment,
                      delivered, last,
                   digest_state, parsed, settings,
                   response,
                   retry>>

\* after the loop: update_prev_state_only when nothing was sent, db.commit()
poll_commit ==
    LET h == handlers["poll"]
        row == IF ~ h.notified THEN update_prev_state_only(h.row) ELSE h.row
    IN /\ h.pc = "loop" /\ h.i > Len(h.events)
       /\ CanRun("poll")
       /\ tasks' = Flush(tasks, row)
       /\ handlers' = [handlers EXCEPT !["poll"] = IdleHandler]
       /\ UNCHANGED <<today, config, notification_log, next_comment, delivered,
                      committed, last,
                   digest_state, parsed, settings,
                   response,
                   retry>>

\* clickup_webhook up to "await request.body()"
webhook_receive(p) ==
    /\ handlers[p].pc = "idle"
    /\ CanRun(p)
    /\ \E c \in 1..MaxConcComment :
          handlers' = [handlers EXCEPT ![p].pc = "awaiting", ![p].comment = c]
    /\ UNCHANGED <<today, tasks, config, notification_log, next_comment,
                   delivered, committed, last,
                   digest_state, parsed, settings,
                   response,
                   retry>>

\* the body is read: the query, parse_webhook_event, should_notify and the
\* call of send_event_notification
webhook_send(p) ==
    LET h == handlers[p]
        evt == parse_webhook_event("clickup", "taskCommentPosted",
                                   ClickupCommentPayload(h.comment))
    IN /\ h.pc = "awaiting"
       /\ CanRun(p)
       /\ ConcId \in DOMAIN tasks
       /\ IF Len(evt) > 0 /\ should_notify(config, evt[1], tasks[ConcId])
          THEN \E slack_ok \in BOOLEAN :
                  LET r == send_event_notification(notification_log, FALSE,
                                                   slack_ok, evt[1], tasks[ConcId])
                  IN /\ notification_log' = r.log
                     /\ delivered' = IF r.ok
                                     THEN Bump(delivered, {dedupe_key(evt[1])})
                                     ELSE delivered
                     /\ handlers' = [handlers EXCEPT ![p] =
                           [h EXCEPT !.pc = "sending", !.id = ConcId,
                                     !.row = tasks[ConcId], !.events = evt,
                                     !.ok = r.ok]]
          ELSE /\ handlers' = [handlers EXCEPT ![p] = IdleHandler]
               /\ UNCHANGED <<notification_log, delivered,
                   retry>>
       /\ UNCHANGED <<today, tasks, config, next_comment, committed, last,
                   digest_state, parsed, settings,
                   response,
                   retry>>

\* the send has returned: update_notification_state(task, evt), db.commit()
webhook_commit(p) ==
    LET h == handlers[p]
    IN /\ h.pc = "sending"
       /\ CanRun(p)
       /\ tasks' = Flush(tasks, update_notification_state(h.row, h.events[1],
                                                          today))
       /\ committed' = [committed EXCEPT
                           ![h.id] = Append(committed[h.id], h.events[1])]
       /\ handlers' = [handlers EXCEPT ![p] = IdleHandler]
       /\ UNCHANGED <<today, config, notification_log, next_comment, delivered,
                      last,
                   digest_state, parsed, settings,
                   response,
                   retry>>

\* one overdue ClickUp task that no cycle has seen yet
InitConc ==
    /\ today = 1
    /\ tasks = [id \in {ConcId} |-> [NewRow(id, 0) EXCEPT !.score = 500]]
    /\ config = DefaultConfig
    /\ notification_log = {}
    /\ next_comment = 1
    /\ delivered = EmptyDict
    /\ committed = [id \in {ConcId} |-> <<>>]
    /\ last = Idle
    /\ handlers = IdleHandlers
    /\ digest_state = None
    /\ parsed = NotParsed
    /\ settings = DefaultSettings
    /\ response = NoRequest
    /\ retry = NoRetry

NextConc ==
    \/ poll_begin
    \/ poll_load
    \/ poll_send
    \/ poll_resume
    \/ poll_commit
    \/ \E p \in Procs \ {"poll"} : webhook_receive(p)
    \/ \E p \in Procs \ {"poll"} : webhook_send(p)
    \/ \E p \in Procs \ {"poll"} : webhook_commit(p)

SpecConc == InitConc /\ [][NextConc]_vars

(***************************************************************************)
(* The three entry paths on one task, with sends that can be suppressed by *)
(* quiet hours or fail at Slack; the trackers deliver the first comments.  *)
(***************************************************************************)
NextEntry ==
    \/ scheduled_sync(PollEnv)
    \/ next_comment <= MaxConcComment
          /\ github_comment_webhook(BOOLEAN, BOOLEAN)
    \/ next_comment <= MaxConcComment
          /\ clickup_comment_webhook(BOOLEAN, BOOLEAN)

SpecEntry == InitLedger /\ [][NextEntry]_vars

(***************************************************************************)
(* escalation.py and the escalation senders of notifier.py                 *)
(***************************************************************************)
MaxEscDay == 9

calculate_days_overdue(due_date, day) ==
    IF due_date = NoDate THEN 0 ELSE Max(0, day - due_date)

\* variant: the step to level 5 is taken one day late
calculate_escalation_level_late(task, day) ==
    LET days_overdue == calculate_days_overdue(task.due_date, day)
    IN IF days_overdue = 0 THEN 0
       ELSE IF days_overdue = 1 THEN 1
       ELSE IF days_overdue = 2 THEN 2
       ELSE IF days_overdue <= 5 THEN 3
       ELSE IF days_overdue <= 6 THEN 5
       ELSE 7

calculate_escalation_level(task, day) ==
    LET days_overdue == calculate_days_overdue(task.due_date, day)
    IN IF days_overdue = 0 THEN 0
       ELSE IF days_overdue = 1 THEN 1
       ELSE IF days_overdue = 2 THEN 2
       ELSE IF days_overdue <= 4 THEN 3
       ELSE IF days_overdue <= 6 THEN 5
       ELSE 7

should_send_individual_notification(task, day) ==
    calculate_escalation_level(task, day) >= 3

\* the rows in the order the query returns them
TaskOrder == << "clickup:1", "clickup:2", "clickup:3", "github:1" >>

SeqOfIds(ids) == SelectSeq(TaskOrder, LAMBDA id : id \in ids)

\* variant: the query without its status filter
get_tasks_needing_notification_any_status(tbl, day) ==
    SeqOfIds({id \in DOMAIN tbl :
                 /\ tbl[id].assignee = "ivan"
                 /\ tbl[id].due_date # NoDate
                 /\ should_send_individual_notification(tbl[id], day)})

get_tasks_needing_notification(tbl, day) ==
    SeqOfIds({id \in DOMAIN tbl :
                 /\ tbl[id].assignee = "ivan"
                 /\ tbl[id].status # "done"
                 /\ tbl[id].due_date # NoDate
                 /\ should_send_individual_notification(tbl[id], day)})

\* the list of group_tasks_by_escalation(tasks)[level], empty when the dict
\* has no such key
group_tasks_by_escalation(tbl, ids, day, level) ==
    SelectSeq(ids, LAMBDA id :
                 /\ calculate_escalation_level(tbl[id], day) >= 3
                 /\ calculate_escalation_level(tbl[id], day) = level)

\* variant: a group is formed from four tasks on
should_consolidate_four(tasks_at_level) == Len(tasks_at_level) >= 4

should_consolidate(tasks_at_level) == Len(tasks_at_level) >= 3

\* slack_blocks.py: the text of the message; the blocks carry the same level
EscalationHead(escalation_level) ==
    IF escalation_level >= 7 THEN "(black) 7+ days overdue"
    ELSE IF escalation_level >= 5 THEN "(red) 5 days overdue"
    ELSE "(orange) 3 days overdue"

format_escalation_message(title, escalation_level) ==
    EscalationHead(escalation_level) \o ": " \o title

format_grouped_escalation(count, escalation_level) ==
    LET head == EscalationHead(escalation_level)
        sp == CHOOSE i \in 1..Len(head) : SubSeq(head, i, i) = " "
    IN SubSeq(head, 1, sp) \o ToString(count) \o " tasks are "
          \o SubSeq(head, sp + 1, Len(head))


\* history: what names an individual and a grouped escalation message
EscKey(id, level) == "escalation:" \o id \o ":" \o ToString(level)

RECURSIVE JoinIds(_)
JoinIds(ids) ==
    IF Len(ids) = 0 THEN ""
    ELSE IF Len(ids) = 1 THEN ids[1]
    ELSE ids[1] \o "," \o JoinIds(Tail(ids))

GroupKey(ids, level) ==
    "escalation_group:" \o JoinIds(ids) \o ":" \o ToString(level)

\* the result is the returned flag, NotificationLog after the call and the
\* messages that reached Slack.  The attributes last_notified_at and
\* escalation_level set after the send are read nowhere.
send_escalation_notification(log, quiet, slack_ok, task, day) ==
    LET level == calculate_escalation_level(task, day)
        text == format_escalation_message(task.title, level)
    IN IF level < 3 THEN [ok |-> FALSE, log |-> log, sent |-> {}]
       ELSE IF ~ _should_send(log, quiet, "escalation", task.id, text)
       THEN [ok |-> FALSE, log |-> log, sent |-> {}]
       ELSE IF slack_ok
       THEN [ok |-> TRUE,
             log |-> _log_notification(log, "escalation", task.id, text),
             sent |-> {EscKey(task.id, level)}]
       ELSE [ok |-> FALSE, log |-> log, sent |-> {}]

\* "for task in ...: await self.send_escalation_notification(task)"; count
\* is the number of calls that returned True
RECURSIVE SendEach(_, _, _, _, _, _, _)
SendEach(acc, quiet, slack_ok, tbl, ids, i, day) ==
    IF i > Len(ids) THEN acc
    ELSE LET r == send_escalation_notification(acc.log, quiet, slack_ok,
                                               tbl[ids[i]], day)
         IN SendEach([log |-> r.log, sent |-> acc.sent \cup r.sent,
                      count |-> acc.count + (IF r.ok THEN 1 ELSE 0)],
                     quiet, slack_ok, tbl, ids, i + 1, day)

send_grouped_escalation(log, quiet, slack_ok, tbl, ids, escalation_level, day) ==
    IF Len(ids) < 3
    THEN LET r == SendEach([log |-> log, sent |-> {}, count |-> 0],
                           quiet, slack_ok, tbl, ids, 1, day)
         IN [ok |-> TRUE, log |-> r.log, sent |-> r.sent]
    ELSE LET text == format_grouped_escalation(Len(ids), escalation_level)
             task_ids == JoinIds(SubSeq(ids, 1, 3))
         IN IF ~ _should_send(log, quiet, "escalation_group", task_ids, text)
            THEN [ok |-> FALSE, log |-> log, sent |-> {}]
            ELSE IF slack_ok
            THEN [ok |-> TRUE,
                  log |-> _log_notification(log, "escalation_group", task_ids,
                                            text),
                  sent |-> {GroupKey(ids, escalation_level)}]
            ELSE [ok |-> FALSE, log |-> log, sent |-> {}]

\* the keys of the dict "grouped", in the order of their insertion
RECURSIVE GroupedLevels(_, _, _, _)
GroupedLevels(tbl, ids, day, seen) ==
    IF Len(ids) = 0 THEN seen
    ELSE LET level == calculate_escalation_level(tbl[ids[1]], day)
         IN GroupedLevels(tbl, Tail(ids), day,
                          IF level < 3 \/ InSeq(level, seen) THEN seen
                          ELSE Append(seen, level))

\* "for level, level_tasks in grouped.items()" from the i-th level on; tried
\* are the messages a sender was called for
RECURSIVE DispatchLevels(_, _, _, _, _, _, _, _)
DispatchLevels(acc, quiet, slack_ok, tbl, ids, levels, i, day) ==
    IF i > Len(levels) THEN acc
    ELSE LET level_tasks == group_tasks_by_escalation(tbl, ids, day, levels[i])
         IN IF should_consolidate(level_tasks)
            THEN LET r == send_grouped_escalation(acc.log, quiet, slack_ok, tbl,
                                                  level_tasks, levels[i], day)
                 IN DispatchLevels(
                        [log |-> r.log, sent |-> acc.sent \cup r.sent,
                         count |-> acc.count + (IF r.ok THEN 1 ELSE 0),
                         tried |-> acc.tried
                                      \cup {GroupKey(level_tasks, levels[i])}],
                        quiet, slack_ok, tbl, ids, levels, i + 1, day)
            ELSE LET r == SendEach([log |-> acc.log, sent |-> acc.sent,
                                    count |-> acc.count],
                                   quiet, slack_ok, tbl, level_tasks, 1, day)
                 IN DispatchLevels(
                        [log |-> r.log, sent |-> r.sent, count |-> r.count,
                         tried |-> acc.tried
                                      \cup {EscKey(level_tasks[j], levels[i]) :
                                               j \in 1..Len(level_tasks)}],
                        quiet, slack_ok, tbl, ids, levels, i + 1, day)

\* notifier.send_escalation_notifications(); quiets and slack_oks bound the
\* send conditions of the cycle.  The history keeps the messages asked for
\* (detected), those that reached Slack (sent) and whether the cycle was
\* outside quiet hours with a working Slack call (result).
send_escalation_notifications(quiets, slack_oks) ==
    \E quiet \in quiets : \E slack_ok \in slack_oks :
       LET ids == get_tasks_needing_notification(tasks, today)
           r == DispatchLevels([log |-> notification_log, sent |-> {},
                                count |-> 0, tried |-> {}],
                               quiet, slack_ok, tasks, ids,
                               GroupedLevels(tasks, ids, today, <<>>), 1, today)
       IN /\ notification_log' = r.log
          /\ delivered' = Bump(delivered, r.sent)
          /\ last' = [Idle EXCEPT !.op = "send_escalation_notifications",
                                  !.detected = r.tried,
                                  !.sent = r.sent,
                                  !.polled = {ids[i] : i \in 1..Len(ids)},
                                  !.result = (~ quiet) /\ slack_ok]
          /\ UNCHANGED <<today, tasks, config, next_comment, committed,
                         handlers,
                   digest_state, parsed, settings,
                   response,
                   retry>>

\* date.today() moves on
next_day ==
    /\ today < MaxEscDay
    /\ today' = today + 1
    /\ last' = [Idle EXCEPT !.op = "next_day"]
    /\ UNCHANGED <<tasks, config, notification_log, next_comment, delivered,
                   committed, handlers,
                   digest_state, parsed, settings,
                   response,
                   retry>>

EscIds == {"clickup:1", "clickup:2", "clickup:3"}

\* three ClickUp tasks of the user, two of them with the same due date
InitEsc ==
    /\ today = 0
    /\ \E d2 \in {0, 2} : \E d3 \in {0, 2, NoDate} :
          tasks = [id \in EscIds |->
                      NewRow(id, IF id = "clickup:1" THEN 0
                                 ELSE IF id = "clickup:2" THEN d2 ELSE d3)]
    /\ config = DefaultConfig
    /\ notification_log = {}
    /\ next_comment = 1
    /\ delivered = EmptyDict
    /\ committed = [id \in DOMAIN tasks |-> <<>>]
    /\ last = Idle
    /\ handlers = IdleHandlers
    /\ digest_state = None
    /\ parsed = NotParsed
    /\ settings = DefaultSettings
    /\ response = NoRequest
    /\ retry = NoRetry

NextEsc ==
    \/ send_escalation_notifications(BOOLEAN, BOOLEAN)
    \/ next_day

SpecEsc == InitEsc /\ [][NextEsc]_vars

(***************************************************************************)
(* notifier.py: the quiet-hours window in front of send_dm and of the      *)
(* escalation senders.  Times of day are points 0..MaxClock of the clock.  *)
(***************************************************************************)
MaxClock == 2

Clock == 0..MaxClock

\* variant: the window is never taken as passing midnight
is_quiet_hours_same_day(now, start, end) ==
    start <= now /\ now <= end

is_quiet_hours(now, start, end) ==
    IF start > end
    THEN now >= start \/ now <= end
    ELSE start <= now /\ now <= end

\* history: the call the last sender was entered with
SendCall(now, notification_type, task_id, message) ==
    [trigger |-> notification_type, task_id |-> task_id,
     fingerprint |-> message, context |-> [now |-> now]]

\* await notifier.send_dm(message, notification_type, task_id) at time now
call_send_dm ==
    \E now \in Clock : \E slack_ok \in BOOLEAN :
    \E notification_type \in {"instant", "morning", "digest"} :
       LET quiet == is_quiet_hours(now, settings.quiet_hours_start,
                                   settings.quiet_hours_end)
           r == send_dm(notification_log, quiet, slack_ok, "Ship it",
                        notification_type, "clickup:1")
           hash == MessageHash(notification_type, "clickup:1", "Ship it")
       IN /\ notification_log' = r.log
          /\ delivered' = Bump(delivered, IF r.ok THEN {hash} ELSE {})
          /\ last' = [Idle EXCEPT !.op = "send_dm",
                                  !.sent = IF r.ok THEN {hash} ELSE {},
                                  !.result = r.ok,
                                  !.event = SendCall(now, notification_type,
                                                     "clickup:1", "Ship it")]
          /\ UNCHANGED <<today, tasks, config, next_comment, committed,
                         handlers, digest_state, parsed, settings, response,
                   retry>>

\* await notifier.send_escalation_notifications() at time now
call_send_escalation_notifications ==
    \E now \in Clock : \E slack_ok \in BOOLEAN :
       LET quiet == is_quiet_hours(now, settings.quiet_hours_start,
                                   settings.quiet_hours_end)
           ids == get_tasks_needing_notification(tasks, today)
           r == DispatchLevels([log |-> notification_log, sent |-> {},
                                count |-> 0, tried |-> {}],
                               quiet, slack_ok, tasks, ids,
                               GroupedLevels(tasks, ids, today, <<>>), 1, today)
       IN /\ notification_log' = r.log
          /\ delivered' = Bump(delivered, r.sent)
          /\ last' = [Idle EXCEPT !.op = "send_escalation_notifications",
                                  !.detected = r.tried,
                                  !.sent = r.sent,
                                  !.polled = {ids[i] : i \in 1..Len(ids)},
                                  !.result = r.sent # {},
                                  !.event = SendCall(now, "escalation", "", "")]
          /\ UNCHANGED <<today, tasks, config, next_comment, committed,
                         handlers, digest_state, parsed, settings, response,
                   retry>>

\* two or three overdue tasks of level 3 under every window of the clock
InitQuiet ==
    /\ today = MaxEscDay
    /\ \E d3 \in {today - 3, NoDate} :
          tasks = [id \in EscIds |->
                      NewRow(id, IF id = "clickup:3" THEN d3 ELSE today - 3)]
    /\ config = DefaultConfig
    /\ notification_log = {}
    /\ next_comment = 1
    /\ delivered = EmptyDict
    /\ committed = [id \in DOMAIN tasks |-> <<>>]
    /\ last = Idle
    /\ handlers = IdleHandlers
    /\ digest_state = None
    /\ parsed = NotParsed
    /\ \E start \in Clock : \E end \in Clock :
          settings = [github_webhook_secret |-> "",
                      clickup_webhook_secret |-> "",
                      notifications_yaml |-> DefaultSettings.notifications_yaml,
                      quiet_hours_start |-> start, quiet_hours_end |-> end]
    /\ response = NoRequest
    /\ retry = NoRetry

NextQuiet ==
    \/ call_send_dm
    \/ call_send_escalation_notifications

SpecQuiet == InitQuiet /\ [][NextQuiet]_vars

\* three overdue tasks, the third perhaps of somebody else, that may be
\* closed in the tracker between the cycles of the poll and of the
\* escalation job
OwnerEnv ==
    [statuses |-> {"done"}, titles |-> {}, blocked |-> {}, dues |-> {},
     midnight |-> FALSE]

InitOwner ==
    /\ today = MaxEscDay
    /\ \E owner \in {"ivan", "attila"} :
          tasks = [id \in EscIds |->
                      [NewRow(id, today - 3) EXCEPT
                          !.assignee = IF id = "clickup:3" THEN owner
                                       ELSE "ivan"]]
    /\ config = DefaultConfig
    /\ notification_log = {}
    /\ next_comment = 1
    /\ delivered = EmptyDict
    /\ committed = [id \in DOMAIN tasks |-> <<>>]
    /\ last = Idle
    /\ handlers = IdleHandlers
    /\ digest_state = None
    /\ parsed = NotParsed
    /\ settings = DefaultSettings
    /\ response = NoRequest
    /\ retry = NoRetry

NextOwner ==
    \/ scheduled_sync(OwnerEnv)
    \/ send_escalation_notifications({FALSE}, {TRUE})

SpecOwner == InitOwner /\ [][NextOwner]_vars

\* the ladder of tasks whose title the tracker may change, under a config
\* that allows notifications and under one that turns them off
LadderEnv ==
    [statuses |-> {}, titles |-> {"Ship it now"}, blocked |-> {}, dues |-> {},
     midnight |-> FALSE]

InitLadder ==
    /\ today = 0
    /\ tasks = [id \in {"clickup:1", "clickup:2"} |->
                   NewRow(id, IF id = "clickup:1" THEN 0 ELSE 2)]
    /\ config \in {DefaultConfig, [DefaultConfig EXCEPT !.mode = "off"]}
    /\ notification_log = {}
    /\ next_comment = 1
    /\ delivered = EmptyDict
    /\ committed = [id \in DOMAIN tasks |-> <<>>]
    /\ last = Idle
    /\ handlers = IdleHandlers
    /\ digest_state = None
    /\ parsed = NotParsed
    /\ settings = DefaultSettings
    /\ response = NoRequest
    /\ retry = NoRetry

NextLadder ==
    \/ send_escalation_notifications(BOOLEAN, {TRUE})
    \/ sync_all_sources(LadderEnv)
    \/ next_day

SpecLadder == InitLadder /\ [][NextLadder]_vars

(***************************************************************************)
(* scheduled_sync over two tasks, one iteration of "for task in tasks" at  *)
(* a time.  Nothing in the loop suspends, so no other handler runs between *)
(* two iterations; the day may change.                                     *)
(***************************************************************************)
PairIds == {"clickup:1", "clickup:2"}

\* the query of scheduled_sync: the rows come in the order the database
\* returns them
poll_query ==
    /\ handlers["poll"].pc = "idle"
    /\ \E rows \in [1..Cardinality(PollQuery(tasks)) -> PollQuery(tasks)] :
          /\ \A i, j \in DOMAIN rows : rows[i] = rows[j] => i = j
          /\ handlers' = [handlers EXCEPT !["poll"].pc = "loop",
                                          !["poll"].rows = rows]
    /\ last' = [Idle EXCEPT !.op = "poll_query"]
    /\ UNCHANGED <<today, tasks, config, notification_log, next_comment,
                   delivered, committed, digest_state, parsed, settings,
                   response,
                   retry>>

\* one iteration of "for task in tasks", up to its db.commit(); quiet: the
\* iteration runs in quiet hours, so that no message of it is sent
poll_task ==
    LET h == handlers["poll"]
    IN /\ h.pc = "loop" /\ h.i <= Len(h.rows)
       /\ \E quiet \in BOOLEAN :
             LET id == h.rows[h.i]
                 r == PollTask(tasks[id], notification_log, config, today,
                               today, quiet, {})
             IN /\ tasks' = [tasks EXCEPT ![id] = r.task]
                /\ notification_log' = r.log
                /\ delivered' = Bump(delivered, Keys(r.sent))
                /\ committed' = [committed EXCEPT ![id] = committed[id] \o r.sent]
                /\ last' = [Idle EXCEPT !.op = "poll_task",
                                         !.detected = Keys(r.detected),
                                         !.sent = Keys(r.sent),
                                         !.failed = Keys(r.failed),
                                         !.polled = {id}]
       /\ handlers' = [handlers EXCEPT !["poll"].i = h.i + 1]
       /\ UNCHANGED <<today, config, next_comment, digest_state, parsed,
                      settings, response,
                   retry>>

\* the loop is through: db.close()
poll_close ==
    /\ handlers["poll"].pc = "loop"
    /\ handlers["poll"].i > Len(handlers["poll"].rows)
    /\ handlers' = [handlers EXCEPT !["poll"] = IdleHandler]
    /\ last' = [Idle EXCEPT !.op = "poll_close"]
    /\ UNCHANGED <<today, tasks, config, notification_log, next_comment,
                   delivered, committed, digest_state, parsed, settings,
                   response,
                   retry>>

\* two ClickUp tasks of the user, one due on day 1, the other on day 1 or 2
InitPair ==
    /\ today = 0
    /\ \E due \in {1, 2} :
          tasks = [id \in PairIds |->
                     [NewRow(id, IF id = "clickup:1" THEN 1 ELSE due)
                         EXCEPT !.score = 500]]
    /\ config = DefaultConfig
    /\ notification_log = {}
    /\ next_comment = 1
    /\ delivered = EmptyDict
    /\ committed = [id \in PairIds |-> <<>>]
    /\ last = Idle
    /\ handlers = IdleHandlers
    /\ digest_state = None
    /\ parsed = NotParsed
    /\ settings = DefaultSettings
    /\ response = NoRequest
    /\ retry = NoRetry

NextPair == poll_query \/ poll_task \/ poll_close \/ Tick

SpecPair == InitPair /\ [][NextPair]_vars

(***************************************************************************)
(* The same handlers in a process that may be stopped and started again    *)
(* at any point.  The tables (tasks with notification_state,               *)
(* notification_log, digest_state) are the database and outlive the        *)
(* process; the coroutines and their sessions do not.                      *)
(***************************************************************************)
\* The changes of a session that was not committed are rolled back, so the
\* events they recorded are no longer recorded anywhere.  _config is loaded
\* again from the same file.
restart ==
    /\ handlers' = IdleHandlers
    /\ committed' = [t \in DOMAIN committed |->
                        SelectSeq(committed[t],
                                  LAMBDA e : InSeq(dedupe_key(e),
                                                   Get(StateOf(tasks[t]),
                                                       "dedupe_keys", <<>>)))]
    /\ last' = [Idle EXCEPT !.op = "restart"]
    /\ UNCHANGED <<today, tasks, config, notification_log, next_comment,
                   delivered, digest_state, parsed, settings, response,
                   retry>>

NextRestart == NextConc \/ restart

SpecRestart == InitConc /\ [][NextRestart]_vars

(***************************************************************************)
(* The detector over successive poll cycles of one task whose status       *)
(* column and blockers take any value of a bounded family.                 *)
(***************************************************************************)
\* values of the String column Task.status, as _check_status_critical
\* accepts them
DetectStatuses == {"todo", "blocked", "Blocked"}

DetectEnv ==
    [statuses |-> {}, titles |-> {}, blocked |-> BlockedByValues, dues |-> {},
     midnight |-> FALSE]

\* a writer of the status column outside the sync
write_status ==
    /\ \E id \in DOMAIN tasks : \E st \in DetectStatuses :
          /\ tasks[id].status # st
          /\ tasks' = [tasks EXCEPT ![id].status = st]
    /\ last' = [Idle EXCEPT !.op = "write_status"]
    /\ UNCHANGED <<today, config, notification_log, next_comment, delivered,
                   committed, handlers,
                   digest_state, parsed, settings,
                   response,
                   retry>>

InitDetect ==
    /\ today = 0
    /\ tasks = [id \in {"clickup:1"} |->
                   [NewRow(id, NoDate) EXCEPT !.score = 500]]
    /\ config = DefaultConfig
    /\ notification_log = {}
    /\ next_comment = 1
    /\ delivered = EmptyDict
    /\ committed = [id \in DOMAIN tasks |-> <<>>]
    /\ last = Idle
    /\ handlers = IdleHandlers
    /\ digest_state = None
    /\ parsed = NotParsed
    /\ settings = DefaultSettings
    /\ response = NoRequest
    /\ retry = NoRetry

NextDetect ==
    \/ scheduled_sync(DetectEnv)
    \/ write_status

SpecDetect == InitDetect /\ [][NextDetect]_vars

(***************************************************************************)
(* scorer.py, and the two cron jobs of main.py.  last_activity and utcnow() *)
(* are counted in hours, NoDate standing for no last_activity.             *)
(***************************************************************************)
\* variant: "due this week" ends a day earlier
calculate_urgency_six_days(due_date, day) ==
    IF due_date = NoDate THEN 1
    ELSE IF due_date - day < 0 THEN 5
    ELSE IF due_date - day = 0 THEN 4
    ELSE IF due_date - day < 7 THEN 3
    ELSE 1

calculate_urgency(due_date, day) ==
    IF due_date = NoDate THEN 1
    ELSE IF due_date - day < 0 THEN 5
    ELSE IF due_date - day = 0 THEN 4
    ELSE IF due_date - day <= 7 THEN 3
    ELSE 1

get_urgency_label(due_date, day) ==
    LET urgency == calculate_urgency(due_date, day)
    IN IF urgency = 5 THEN "Overdue"
       ELSE IF urgency = 4 THEN "Due today"
       ELSE IF urgency = 3 THEN "Due this week"
       ELSE IF due_date = NoDate THEN "No deadline" ELSE "Future"

\* variant: one blocked person counts like any number of them
calculate_score_blocking_flag(task, day, now) ==
    (IF task.is_revenue THEN 1000 ELSE 0)
    + (IF Len(task.is_blocking) > 0 THEN 500 ELSE 0)
    + calculate_urgency(task.due_date, day) * 100
    + (IF task.last_activity # NoDate /\ now - task.last_activity < 24
       THEN 1 ELSE 0)

calculate_score(task, day, now) ==
    (IF task.is_revenue THEN 1000 ELSE 0)
    + Len(task.is_blocking) * 500
    + calculate_urgency(task.due_date, day) * 100
    + (IF task.last_activity # NoDate /\ now - task.last_activity < 24
       THEN 1 ELSE 0)

\* datetime.utcnow() of the calls of a day
UtcNow(day) == day * 24 + 12

\* the rows of ids in the order of the query, each with its fresh score,
\* sorted by score, highest first; sorted() is stable
RECURSIVE SortedByScore(_)
SortedByScore(rows) ==
    IF rows = <<>> THEN <<>>
    ELSE LET best == CHOOSE i \in 1..Len(rows) :
                        /\ \A j \in 1..Len(rows) : rows[j].score <= rows[i].score
                        /\ \A j \in 1..(i - 1) : rows[j].score < rows[i].score
             rest == [k \in 1..(Len(rows) - 1) |->
                         IF k < best THEN rows[k] ELSE rows[k + 1]]
         IN <<rows[best]>> \o SortedByScore(rest)

score_and_sort_tasks(tbl, ids, day) ==
    LET order == SeqOfIds(ids)
    IN SortedByScore([i \in 1..Len(order) |->
           [tbl[order[i]] EXCEPT !.score = calculate_score(tbl[order[i]], day,
                                                          UtcNow(day))]])

RECURSIVE FocusLines(_, _, _)
FocusLines(rows, i, day) ==
    IF i > Min(Len(rows), 3) THEN ""
    ELSE ToString(i) \o ". <" \o rows[i].url \o "|" \o rows[i].title
            \o "> (Score: " \o ToString(rows[i].score) \o ") -> "
            \o get_urgency_label(rows[i].due_date, day) \o "\n"
            \o FocusLines(rows, i + 1, day)

\* f"..." of send_morning_briefing
MorningMessage(rows, day) ==
    IF rows = <<>> THEN "Good morning, Ivan. No tasks in queue. Enjoy your day!"
    ELSE LET labelled(l) == Cardinality({i \in 1..Len(rows) :
                                get_urgency_label(rows[i].due_date, day) = l})
         IN "Good morning, Ivan\nTOP 3 FOCUS\n" \o FocusLines(rows, 1, day)
               \o "SUMMARY\n" \o ToString(labelled("Overdue"))
               \o " tasks overdue\n" \o ToString(labelled("Due today"))
               \o " tasks due today\n0 people waiting on you (none)"

send_morning_briefing(log, slack_ok, rows, day) ==
    send_dm(log, FALSE, slack_ok, MorningMessage(rows, day), "morning", None)

RECURSIVE DigestLines(_, _, _)
DigestLines(tbl, order, i) ==
    IF i > Min(Len(order), 5) THEN ""
    ELSE "- <" \o tbl[order[i]].url \o "|" \o tbl[order[i]].title \o ">\n"
            \o DigestLines(tbl, order, i + 1)

\* the result is the flag of send_dm, FALSE when nothing was to send
send_hourly_digest(log, quiet, slack_ok, tbl, new_tasks, updated_tasks) ==
    IF new_tasks = <<>> /\ updated_tasks = <<>> THEN [ok |-> FALSE, log |-> log]
    ELSE send_dm(log, quiet, slack_ok,
             "Hourly Update\n"
                \o (IF new_tasks = <<>> THEN ""
                    ELSE "New tasks assigned:\n" \o DigestLines(tbl, new_tasks, 1))
                \o (IF updated_tasks = <<>> THEN ""
                    ELSE "Updates on your tasks:\n"
                            \o DigestLines(tbl, updated_tasks, 1)),
             "digest", None)

\* Task.status != "done", Task.assignee == "ivan"
OpenIvan(tbl) ==
    {t \in DOMAIN tbl : tbl[t].assignee = "ivan" /\ tbl[t].status # "done"}

\* The first run stores the DigestState row and returns.  A later run sends
\* the rows updated since last_digest_at: the model keeps no timestamps, so
\* which of the open rows were written since then is an input; no row of the
\* model is created after the start, so new_tasks is empty.
hourly_digest_job(quiets, slack_oks) ==
    /\ IF digest_state = None
       THEN /\ digest_state' = "set"
            /\ last' = [Idle EXCEPT !.op = "hourly_digest_job"]
            /\ UNCHANGED <<notification_log, delivered,
                   retry>>
       ELSE \E updated \in SUBSET OpenIvan(tasks) :
            \E quiet \in quiets : \E slack_ok \in slack_oks :
               LET r == send_hourly_digest(notification_log, quiet, slack_ok,
                                           tasks, <<>>, SeqOfIds(updated))
               IN /\ notification_log' = r.log
                  /\ delivered' = Bump(delivered,
                                       IF r.ok THEN {"digest"} ELSE {})
                  /\ digest_state' = "set"
                  /\ last' = [Idle EXCEPT !.op = "hourly_digest_job",
                                           !.polled = updated,
                                           !.result = r.ok]
    /\ UNCHANGED <<today, tasks, config, next_comment, committed, handlers,
                   parsed, settings,
                   response,
                   retry>>

\* sync_all_sources, then the briefing over the open rows of the user.  The
\* scores score_and_sort_tasks assigns are never committed.
morning_briefing_job(env, slack_oks) ==
    \E id \in DOMAIN tasks : \E row \in SyncedRows(tasks[id], env) :
    \E slack_ok \in slack_oks :
       LET synced == [tasks EXCEPT ![id] = row]
           rows == score_and_sort_tasks(synced, OpenIvan(synced), today)
           r == send_morning_briefing(notification_log, slack_ok, rows, today)
       IN /\ tasks' = synced
          /\ notification_log' = r.log
          /\ delivered' = Bump(delivered, IF r.ok THEN {"morning"} ELSE {})
          /\ last' = [Idle EXCEPT !.op = "morning_briefing_job",
                                   !.polled = OpenIvan(synced),
                                   !.result = r.ok]
          /\ UNCHANGED <<today, config, next_comment, committed, handlers,
                         digest_state, parsed, settings,
                   response,
                   retry>>

(***************************************************************************)
(* main.py lifespan: the jobs the scheduler runs, over the days of one     *)
(* task that is never finished.  Each job recurs for ever (an interval     *)
(* trigger and two cron triggers), hence the weak fairness.                *)
(***************************************************************************)
JobsStart == 6

JobsEnv ==
    [statuses |-> {"in_progress"}, titles |-> {}, blocked |-> {},
     dues |-> {}, midnight |-> FALSE]

\* the process starts with one task of the user that fell due JobsStart days
\* ago
InitJobs ==
    /\ today = JobsStart
    /\ tasks = [id \in {"clickup:1"} |-> NewRow(id, 0)]
    /\ config = DefaultConfig
    /\ notification_log = {}
    /\ next_comment = 1
    /\ delivered = EmptyDict
    /\ committed = [id \in DOMAIN tasks |-> <<>>]
    /\ last = Idle
    /\ handlers = IdleHandlers
    /\ digest_state = None
    /\ parsed = NotParsed
    /\ settings = DefaultSettings
    /\ response = NoRequest
    /\ retry = NoRetry

NextJobs ==
    \/ scheduled_sync(JobsEnv)
    \/ hourly_digest_job({FALSE}, BOOLEAN)
    \/ morning_briefing_job(JobsEnv, BOOLEAN)
    \/ next_day

\* Each of the three jobs can run in every state, so its trigger firing again
\* and again means that it runs again and again.
SpecJobs ==
    /\ InitJobs /\ [][NextJobs]_vars
    /\ WF_vars(next_day)
    /\ []<>(last.op = "scheduled_sync")
    /\ []<>(last.op = "hourly_digest_job")
    /\ []<>(last.op = "morning_briefing_job")

(***************************************************************************)
(* scorer.py on its own: the scores and breakdowns of two tasks.  An       *)
(* entity and a workstream are Optional: <<>> or a one-element list.       *)
(***************************************************************************)
get_score_breakdown(task, day, now) ==
    LET blocking_count == Len(task.is_blocking)
        urgency == calculate_urgency(task.due_date, day)
        recency_bonus == IF task.last_activity # NoDate
                            /\ now - task.last_activity < 24 THEN 1 ELSE 0
    IN [total |-> task.score,
        revenue |-> IF task.is_revenue THEN 1000 ELSE 0,
        blocking |-> blocking_count * 500,
        blocking_count |-> blocking_count,
        urgency |-> urgency * 100,
        urgency_level |-> urgency,
        urgency_label |-> get_urgency_label(task.due_date, day),
        recency |-> recency_bonus]

\* entity_models.py Entity.get_priority
get_priority(entity) ==
    IF entity.priority # <<>> THEN entity.priority[1]
    ELSE CASE entity.relationship_type = "team" -> 5
           [] entity.relationship_type \in {"client", "investor"} -> 4
           [] entity.relationship_type \in {"prospect", "partner"} -> 3
           [] entity.relationship_type \in {"vendor", "network"} -> 1
           [] OTHER -> 2

calculate_project_urgency(workstream, day) ==
    IF workstream = <<>> THEN 0
    ELSE calculate_urgency(workstream[1].deadline, day)

calculate_score_with_context(task, entity, workstream, day, now) ==
    calculate_score(task, day, now)
    + calculate_project_urgency(workstream, day) * 50
    + (IF entity = <<>> THEN 0 ELSE get_priority(entity[1]) * 25)

\* without the names and the deadline text, which carry no addend
get_score_breakdown_with_context(task, entity, workstream, day, now) ==
    LET breakdown == get_score_breakdown(task, day, now)
        project_urgency == calculate_project_urgency(workstream, day)
        entity_priority == IF entity = <<>> THEN 0 ELSE get_priority(entity[1])
    IN [total |-> calculate_score_with_context(task, entity, workstream, day,
                                               now),
        revenue |-> breakdown.revenue,
        blocking |-> breakdown.blocking,
        blocking_count |-> breakdown.blocking_count,
        urgency |-> breakdown.urgency,
        urgency_level |-> breakdown.urgency_level,
        urgency_label |-> breakdown.urgency_label,
        recency |-> breakdown.recency,
        project_urgency |-> project_urgency * 50,
        project_urgency_level |-> project_urgency,
        entity_priority |-> entity_priority * 25,
        entity_priority_level |-> entity_priority]

UrgencyAhead == 9

ScoreIds == {"clickup:1", "clickup:2"}

\* the due dates around a day: none, yesterday, the day, 7 and 8 days ahead
ScoreDues(day) == {NoDate, day - 1, day, day + 7, day + 8}

\* the rows of the first task; the second one blocks nobody and is due
\* more than a week ahead
ScoreRows(id, day) ==
    {[NewRow(id, due) EXCEPT !.score = 0, !.is_revenue = rev,
                             !.is_blocking = blk, !.last_activity = act] :
        due \in IF id = "clickup:1" THEN ScoreDues(day) ELSE {day + 8},
        rev \in BOOLEAN,
        blk \in IF id = "clickup:1"
                THEN {<<>>, <<"attila">>, <<"attila", "tamas">>}
                ELSE {<<>>},
        act \in IF id = "clickup:1"
                THEN {NoDate, UtcNow(day) - 24, UtcNow(day) - 23}
                ELSE {NoDate, UtcNow(day) - 23}}

Entities ==
    {<<>>,
     << [name |-> "Acme", priority |-> <<5>>, relationship_type |-> "client"] >>,
     << [name |-> "Acme", priority |-> <<>>, relationship_type |-> "client"] >>}

Workstreams(day) == {<<>>, << [name |-> "Launch", deadline |-> day] >>}

\* calculate_urgency of every date from two days back to UrgencyAhead days
\* ahead, and of no date
urgency_levels ==
    /\ last' = [Idle EXCEPT
                   !.op = "calculate_urgency",
                   !.result = [d \in {NoDate} \cup (today - 2)..(today + UrgencyAhead)
                                  |-> calculate_urgency(d, today)]]
    /\ UNCHANGED <<today, tasks, config, notification_log, next_comment,
                   delivered, committed, handlers, digest_state, parsed,
                   settings, response,
                   retry>>

\* the loop of score_and_sort_tasks: task.score = calculate_score(task)
score_tasks ==
    /\ tasks' = [id \in DOMAIN tasks |->
                    [tasks[id] EXCEPT !.score =
                        calculate_score(tasks[id], today, UtcNow(today))]]
    /\ last' = [Idle EXCEPT !.op = "score_and_sort_tasks"]
    /\ UNCHANGED <<today, config, notification_log, next_comment, delivered,
                   committed, handlers, digest_state, parsed, settings,
                   response,
                   retry>>

score_breakdown ==
    /\ \E id \in {"clickup:1"} :
          last' = [Idle EXCEPT
                      !.op = "get_score_breakdown", !.polled = {id},
                      !.result = [breakdown |->
                                     get_score_breakdown(tasks[id], today,
                                                         UtcNow(today)),
                                  entity |-> <<>>, workstream |-> <<>>]]
    /\ UNCHANGED <<today, tasks, config, notification_log, next_comment,
                   delivered, committed, handlers, digest_state, parsed,
                   settings, response,
                   retry>>

score_breakdown_with_context ==
    /\ \E id \in {"clickup:1"} : \E entity \in Entities :
       \E workstream \in Workstreams(today) :
          last' = [Idle EXCEPT
                      !.op = "get_score_breakdown_with_context",
                      !.polled = {id},
                      !.result = [breakdown |->
                                     get_score_breakdown_with_context(
                                        tasks[id], entity, workstream, today,
                                        UtcNow(today)),
                                  entity |-> entity, workstream |-> workstream]]
    /\ UNCHANGED <<today, tasks, config, notification_log, next_comment,
                   delivered, committed, handlers, digest_state, parsed,
                   settings, response,
                   retry>>

\* the day before the last one of the model, no task scored yet
InitScore ==
    /\ today = MaxDay - 1
    /\ \E r1 \in ScoreRows("clickup:1", today) :
       \E r2 \in ScoreRows("clickup:2", today) :
          tasks = [id \in ScoreIds |-> IF id = "clickup:1" THEN r1 ELSE r2]
    /\ config = DefaultConfig
    /\ notification_log = {}
    /\ next_comment = 1
    /\ delivered = EmptyDict
    /\ committed = [id \in ScoreIds |-> <<>>]
    /\ last = Idle
    /\ handlers = IdleHandlers
    /\ digest_state = None
    /\ parsed = NotParsed
    /\ settings = DefaultSettings
    /\ response = NoRequest
    /\ retry = NoRetry

NextScore ==
    \/ urgency_levels
    \/ score_tasks
    \/ score_breakdown
    \/ score_breakdown_with_context
    \/ Tick

SpecScore == InitScore /\ [][NextScore]_vars

(***************************************************************************)
(* The stored score between its writers: _sync_source inserts a row with   *)
(* the column default and never assigns score, the bot's commands store    *)
(* the scores score_and_sort_tasks computes, the poll reads the column.    *)
(***************************************************************************)
\* a task the sync has just inserted: score is the column default
InitInserted ==
    /\ today = 0
    /\ \E rev \in BOOLEAN : \E due \in {NoDate, 1} :
          tasks = [id \in {"clickup:1"} |->
                      [NewRow(id, due) EXCEPT !.score = 0, !.is_revenue = rev]]
    /\ config = DefaultConfig
    /\ notification_log = {}
    /\ next_comment = 1
    /\ delivered = EmptyDict
    /\ committed = [id \in DOMAIN tasks |-> <<>>]
    /\ last = Idle
    /\ handlers = IdleHandlers
    /\ digest_state = None
    /\ parsed = NotParsed
    /\ settings = DefaultSettings
    /\ response = NoRequest
    /\ retry = NoRetry

NextInserted ==
    \/ scheduled_sync(PollEnv)
    \/ score_tasks
    \/ Tick

SpecInserted == InitInserted /\ [][NextInserted]_vars

(***************************************************************************)
(* parse_webhook_event over malformed and partial deliveries: of a         *)
(* complete comment payload some paths are missing and some are null.      *)
(***************************************************************************)
Drop(d, keys) == [k \in (DOMAIN d) \ keys |-> d[k]]

GithubPaths ==
    {"action", "comment", "issue", "comment.user", "comment.body",
     "issue.assignee"}

ClickupPaths ==
    {"task_id", "task", "history_items", "history_items.0", "comment",
     "comment.user", "comment.text_content"}

\* the dict left of GithubCommentPayload(1) with text body
MalformedGithubPayload(body, absent) ==
    LET full == GithubCommentPayload(1)
        comment == Drop([full.comment EXCEPT !.body = body],
                        {k \in {"user", "body"} : ("comment." \o k) \in absent})
        issue == Drop(full.issue,
                      {k \in {"assignee"} : ("issue." \o k) \in absent})
    IN Drop([full EXCEPT !.comment = comment, !.issue = issue], absent)

\* the dict left of ClickupCommentPayload(1) with text body; task: the
\* payload carries the id under task.id as well
MalformedClickupPayload(body, missing, nulls) ==
    LET full == ClickupCommentPayload(1)
        absent == missing \cup nulls
        comment == Drop([full.history_items[1].comment EXCEPT
                            !.text_content = body],
                        {k \in {"user", "text_content"} :
                            ("comment." \o k) \in absent})
        item == IF "history_items.0" \in absent THEN EmptyDict
                ELSE Drop([comment |-> comment], absent)
        history == IF "history_items" \in nulls
                      \/ "history_items.0" \in missing THEN <<>>
                   ELSE << item >>
    IN Drop([event |-> full.event, task_id |-> full.task_id,
             task |-> [id |-> "1"], history_items |-> history],
            (absent \ {"history_items"}) \cup (missing \cap {"history_items"}))

WebhookSources == {"github", "clickup", "gitlab"}

WebhookEventTypes(source) ==
    IF source = "github" THEN {"issue_comment", "ping"}
    ELSE IF source = "clickup" THEN {"taskCommentPosted", "taskMoved"}
    ELSE {"push"}

\* the deliveries: source, event type, payload and its null paths
WebhookDeliveries ==
    UNION {UNION {UNION {UNION {
        {[NotParsed EXCEPT
            !.source = source, !.event_type = event_type,
            !.missing = missing, !.nulls = nulls,
            !.payload = IF source = "clickup"
                        THEN MalformedClickupPayload(body, missing, nulls)
                        ELSE MalformedGithubPayload(body, missing \cup nulls)] :
         nulls \in SUBSET ((IF source = "clickup" THEN ClickupPaths
                            ELSE GithubPaths) \ missing)} :
         missing \in SUBSET (IF source = "clickup" THEN ClickupPaths
                             ELSE GithubPaths)} :
         body \in {"lgtm", "@ivanivanka ping"}} :
         event_type \in WebhookEventTypes(source)} :
         source \in WebhookSources}

\* the detector parses the delivery
receive_webhook ==
    /\ ~ parsed.called
    /\ LET r == parse_webhook_event_call(parsed.source, parsed.event_type,
                                         parsed.payload, parsed.nulls)
       IN parsed' = [parsed EXCEPT !.called = TRUE, !.raised = r.raised,
                                   !.event = r.event]
    /\ UNCHANGED <<today, tasks, config, notification_log, next_comment,
                   delivered, committed, last, handlers, digest_state,
                   settings, response,
                   retry>>

\* the rows are the user's, or were handed to somebody else by delegate
InitParse ==
    /\ today = 0
    /\ \E person \in {"ivan", "attila"} :
          tasks = [id \in TaskIds |->
                      [NewRow(id, NoDate) EXCEPT !.assignee = person]]
    /\ config = DefaultConfig
    /\ notification_log = {}
    /\ next_comment = 1
    /\ delivered = EmptyDict
    /\ committed = [id \in DOMAIN tasks |-> <<>>]
    /\ last = Idle
    /\ handlers = IdleHandlers
    /\ digest_state = None
    /\ parsed \in WebhookDeliveries
    /\ settings = DefaultSettings
    /\ response = NoRequest
    /\ retry = NoRetry

NextParse == receive_webhook

SpecParse == InitParse /\ [][NextParse]_vars

(***************************************************************************)
(* main.py: the webhook endpoints from the request on.  The body of a      *)
(* request is its JSON payload; the trackers sign with TrackerSecret.      *)
(***************************************************************************)
\* hmac.new(secret, payload, sha256).hexdigest(): one digest per secret and body
HmacSha256(secret, body) == "hmac(" \o secret \o "," \o body \o ")"

\* variant: the GitHub header compared without its "sha256=" prefix
verify_github_signature_bare(payload, signature, secret) ==
    IF secret = "" THEN TRUE
    ELSE HmacSha256(secret, payload) = signature

verify_github_signature(payload, signature, secret) ==
    IF secret = "" THEN TRUE
    ELSE ("sha256=" \o HmacSha256(secret, payload)) = signature

verify_clickup_signature(payload, signature, secret) ==
    IF secret = "" THEN TRUE
    ELSE HmacSha256(secret, payload) = signature

TrackerSecret == "s3cret"

\* the signature headers of a request with this body: absent, made up, the
\* tracker's in either form, and the tracker's signature of another body
RequestSignatures(body) ==
    {"", "sha256=invalid", HmacSha256(TrackerSecret, body),
     "sha256=" \o HmacSha256(TrackerSecret, body),
     "sha256=" \o HmacSha256(TrackerSecret, "{}")}

\* json.loads(body); a body is named by what it reports
json_loads(source, body) ==
    IF source = "github"
    THEN CASE body = "comment 1" -> GithubCommentPayload(1)
           [] body = "comment 2" -> GithubCommentPayload(2)
           [] body = "closed" -> [action |-> "closed", issue |-> [number |-> 1]]
           [] OTHER -> [action |-> "reopened", issue |-> [number |-> 1]]
    ELSE CASE body = "comment 1" -> ClickupCommentPayload(1)
           [] body = "comment 2" -> ClickupCommentPayload(2)
           [] OTHER -> [event |-> "taskStatusUpdated", task_id |-> "1",
                        history_items |-> << [after |-> [status |-> body]] >>]

\* POST /webhooks/github and POST /webhooks/clickup
webhook_request(source) ==
    \E body \in {"comment 1", "closed", "open"} :
    \E signature \in RequestSignatures(body) :
       LET payload == json_loads(source, body)
           verified == IF source = "github"
                       THEN verify_github_signature(
                                body, signature, settings.github_webhook_secret)
                       ELSE verify_clickup_signature(
                                body, signature, settings.clickup_webhook_secret)
       IN /\ (source \o ":1") \in DOMAIN tasks
          /\ response' = [source |-> source, body |-> body,
                          signature |-> signature,
                          status_code |-> IF verified THEN 200 ELSE 401]
          /\ IF ~ verified
             THEN UNCHANGED <<tasks, notification_log, delivered, committed,
                              last,
                   retry>>
             ELSE IF source = "github"
             THEN github_webhook(IF "comment" \in DOMAIN payload
                                 THEN "issue_comment" ELSE "issues",
                                 payload, FALSE, TRUE)
             ELSE clickup_webhook(payload, FALSE, TRUE)
          /\ UNCHANGED <<today, config, next_comment, handlers, digest_state,
                         parsed, settings,
                   retry>>

\* the process runs with the default settings or with both secrets set
InitSig ==
    /\ today = 0
    /\ tasks = [id \in TaskIds |-> [NewRow(id, NoDate) EXCEPT !.score = 500]]
    /\ config = DefaultConfig
    /\ notification_log = {}
    /\ next_comment = 1
    /\ delivered = EmptyDict
    /\ committed = [id \in DOMAIN tasks |-> <<>>]
    /\ last = Idle
    /\ handlers = IdleHandlers
    /\ digest_state = None
    /\ parsed = NotParsed
    /\ settings \in {DefaultSettings,
                     [DefaultSettings EXCEPT
                         !.github_webhook_secret = TrackerSecret,
                         !.clickup_webhook_secret = TrackerSecret]}
    /\ response = NoRequest
    /\ retry = NoRetry

NextSig == webhook_request("github") \/ webhook_request("clickup")

SpecSig == InitSig /\ [][NextSig]_vars

(***************************************************************************)
(* notification_config.py: load_notification_config.  int() raises on a    *)
(* threshold that is no number, .items() on triggers that are no mapping;  *)
(* the except branch returns a new NotificationConfig().                   *)
(***************************************************************************)
\* what went wrong is kept: the config as modified so far
load_notification_config_partial(file) ==
    IF ~ file.exists THEN DefaultConfig
    ELSE IF ~ file.readable THEN DefaultConfig
    ELSE LET data == file.data
             c1 == IF "mode" \in DOMAIN data
                   THEN [DefaultConfig EXCEPT !.mode = data.mode]
                   ELSE DefaultConfig
             c2 == IF "threshold" \in DOMAIN data /\ data.threshold = "700"
                   THEN [c1 EXCEPT !.threshold = 700]
                   ELSE IF "threshold" \in DOMAIN data
                   THEN [c1 EXCEPT !.threshold = 0] ELSE c1
         IN IF "threshold" \in file.ill_typed THEN c1
            ELSE IF "triggers" \in file.ill_typed THEN c2
            ELSE IF "triggers" \in DOMAIN data
            THEN [c2 EXCEPT !.triggers =
                     [t \in VALID_TRIGGERS |->
                         IF t \in DOMAIN data.triggers THEN data.triggers[t]
                         ELSE c2.triggers[t]]]
            ELSE c2

\* every entry of the file's triggers is stored
load_notification_config_unfiltered(file) ==
    IF ~ file.exists THEN DefaultConfig
    ELSE IF ~ file.readable THEN DefaultConfig
    ELSE LET data == file.data
             c1 == IF "mode" \in DOMAIN data
                   THEN [DefaultConfig EXCEPT !.mode = data.mode]
                   ELSE DefaultConfig
             c2 == IF "threshold" \in DOMAIN data /\ data.threshold = "700"
                   THEN [c1 EXCEPT !.threshold = 700]
                   ELSE IF "threshold" \in DOMAIN data
                   THEN [c1 EXCEPT !.threshold = 0] ELSE c1
         IN IF "threshold" \in file.ill_typed THEN DefaultConfig
            ELSE IF "triggers" \in file.ill_typed THEN DefaultConfig
            ELSE IF "triggers" \in DOMAIN data
            THEN [c2 EXCEPT !.triggers =
                     [t \in VALID_TRIGGERS \cup DOMAIN data.triggers |->
                         IF t \in DOMAIN data.triggers THEN data.triggers[t]
                         ELSE c2.triggers[t]]]
            ELSE c2

\* c1: after "mode", c2: after "threshold" (int() of "700" and of "0"); a
\* failure at any line ends in "return NotificationConfig()"
load_notification_config(file) ==
    IF ~ file.exists THEN DefaultConfig
    ELSE IF ~ file.readable THEN DefaultConfig
    ELSE LET data == file.data
             c1 == IF "mode" \in DOMAIN data
                   THEN [DefaultConfig EXCEPT !.mode = data.mode]
                   ELSE DefaultConfig
             c2 == IF "threshold" \in DOMAIN data /\ data.threshold = "700"
                   THEN [c1 EXCEPT !.threshold = 700]
                   ELSE IF "threshold" \in DOMAIN data
                   THEN [c1 EXCEPT !.threshold = 0] ELSE c1
         IN IF "threshold" \in file.ill_typed THEN DefaultConfig
            ELSE IF "triggers" \in file.ill_typed THEN DefaultConfig
            ELSE IF "triggers" \in DOMAIN data
            THEN [c2 EXCEPT !.triggers =
                     [t \in VALID_TRIGGERS |->
                         IF t \in DOMAIN data.triggers THEN data.triggers[t]
                         ELSE c2.triggers[t]]]
            ELSE c2

\* the files of the model: any of mode, threshold and triggers may be absent;
\* a threshold is "0", "700" or no number ("abc", ill-typed); triggers maps
\* some of three names, one of them unknown, or is no mapping (ill-typed)
ConfigFiles ==
    {[exists |-> e, readable |-> r, data |-> Drop(d, absent), ill_typed |-> bad] :
        e \in BOOLEAN, r \in BOOLEAN,
        d \in {[mode |-> m, threshold |-> th, triggers |-> tr] :
                  m \in {"full", "off"}, th \in {"0", "700", "abc"},
                  tr \in UNION {[names -> BOOLEAN] :
                            names \in SUBSET {"comment_on_owned", "overdue",
                                              "fake_trigger"}}},
        absent \in SUBSET {"mode", "threshold", "triggers"},
        bad \in SUBSET {"threshold", "triggers"}}

\* get_notification_config when _config is None
first_get_notification_config ==
    /\ DOMAIN config = {}
    /\ config' = load_notification_config(settings.notifications_yaml)
    /\ last' = [Idle EXCEPT !.op = "get_notification_config"]
    /\ UNCHANGED <<today, tasks, notification_log, next_comment, delivered,
                   committed, handlers, digest_state, parsed, settings,
                   response,
                   retry>>

\* a process that has not read its config yet
InitLoad ==
    /\ today = 0
    /\ tasks = [id \in {"clickup:1"} |-> NewRow(id, NoDate)]
    /\ config = EmptyDict
    /\ notification_log = {}
    /\ next_comment = 1
    /\ delivered = EmptyDict
    /\ committed = [id \in DOMAIN tasks |-> <<>>]
    /\ last = Idle
    /\ handlers = IdleHandlers
    /\ digest_state = None
    /\ parsed = NotParsed
    /\ \E file \in ConfigFiles :
          /\ ("threshold" \in file.ill_typed) =
                ("threshold" \in DOMAIN file.data /\ file.data.threshold = "abc")
          /\ "triggers" \in file.ill_typed => "triggers" \in DOMAIN file.data
          /\ settings = [DefaultSettings EXCEPT !.notifications_yaml = file]
    /\ response = NoRequest
    /\ retry = NoRetry

NextLoad == first_get_notification_config

SpecLoad == InitLoad /\ [][NextLoad]_vars

(***************************************************************************)
(* Properties.                                                             *)
(***************************************************************************)
Ledger(t) == Get(StateOf(tasks[t]), "dedupe_keys", <<>>)

LastCommitted(t) == committed[t][Len(committed[t])]

\* C1: once update_notification_state has recorded an event for a task,
\* should_notify rejects that event again, whatever the task's score,
\* status, assignee, due date and blocked_by have become, under every
\* config, and after any number of update_prev_state_only calls.
C1_CommittedEventStaysBlocked ==
    \A t \in DOMAIN tasks :
        Len(committed[t]) > 0 =>
            \A c \in Configs : \A sc \in Scores :
                ~ should_notify(c, LastCommitted(t), [tasks[t] EXCEPT !.score = sc])

\* a poll cycle that only refreshed the snapshot of a task with a recorded
\* event, under a config and score that let every trigger pass
C1_Witness ==
    \E t \in DOMAIN tasks :
        /\ Len(committed[t]) > 0
        /\ last.op = "scheduled_sync" /\ t \in last.polled /\ last.sent = {}
        /\ config.mode = "full" /\ tasks[t].score = 500
        /\ tasks[t].blocked_by # <<>>

\* C7: in scheduled_sync an event that passed should_notify and whose send
\* returned false is not recorded and is detected again by the next poll of
\* the unchanged task.
C7_FailedSendIsRetried ==
    last.op = "scheduled_sync" =>
        \A k \in last.failed :
            /\ \A t \in last.polled : ~ InSeq(k, Ledger(t))
            /\ \E t \in last.polled : k \in Keys(detect_from_sync(tasks[t], today))

\* C8: at the end of a scheduled_sync cycle the snapshot of every processed
\* task equals its current status, assignee and blocked_by.
C8_SnapshotIsCurrent ==
    last.op = "scheduled_sync" =>
        \A t \in last.polled :
            LET st == StateOf(tasks[t])
            IN /\ {"prev_status", "prev_assignee", "prev_blocked_by"} \subseteq DOMAIN st
               /\ st["prev_status"] = tasks[t].status
               /\ st["prev_assignee"] = tasks[t].assignee
               /\ st["prev_blocked_by"] = tasks[t].blocked_by

\* a cycle in which an event passed the filter and was not sent, and one in
\* which an event was sent
C8_Witness ==
    /\ last.op = "scheduled_sync"
    /\ last.polled # {}
    /\ last.failed # {}
    /\ last.sent = {}

IsOverdue(row, day) == row.due_date # NoDate /\ row.due_date < day

\* C9: on every calendar day on which a task is overdue, detect emits the
\* overdue event of that day exactly as long as that day's event has not
\* been committed.
C9_OverdueOncePerDay ==
    \A t \in DOMAIN tasks :
        IsOverdue(tasks[t], today) =>
            ( (_check_overdue(tasks[t], StateOf(tasks[t]), today) # <<>>)
              <=> ~ \E i \in 1..Len(committed[t]) :
                        /\ committed[t][i].trigger = OVERDUE
                        /\ committed[t][i].fingerprint
                              = "overdue:" \o StrDate(today) )

DeadlineCommits(t) ==
    SelectSeq(committed[t], LAMBDA e : e.trigger = DEADLINE_WARNING)

\* C10: detect emits the 24h warning only the day before the due date and
\* when no deadline warning was ever recorded, the 2h warning only on the
\* due date and when the last recorded one is not 2h, and none for a due
\* date two or more days ahead or in the past; each of the two warnings is
\* notified at most once per task, and never 24h after 2h.
C10_DeadlineWarnings ==
    \A t \in DOMAIN tasks :
        LET row == tasks[t]
            ev == _check_deadline(row, StateOf(row), today)
            dc == DeadlineCommits(t)
        IN /\ ev # <<>> => /\ row.due_date # NoDate
                           /\ ev[1].fingerprint \in {"24h", "2h"}
                           /\ ev[1].fingerprint = "24h" =>
                                 row.due_date = today + 1 /\ dc = <<>>
                           /\ ev[1].fingerprint = "2h" =>
                                 /\ row.due_date = today
                                 /\ Get(StateOf(row), "last_deadline_notified",
                                        None) # "2h"
           /\ (row.due_date # NoDate
               /\ (row.due_date >= today + 2 \/ row.due_date < today))
                 => ev = <<>>
           /\ \A i, j \in 1..Len(dc) :
                 i < j => dc[i].fingerprint = "24h" /\ dc[j].fingerprint = "2h"
           /\ \A k \in DOMAIN delivered :
                 (k = dedupe_key(Event(DEADLINE_WARNING, t, "24h", EmptyDict))
                  \/ k = dedupe_key(Event(DEADLINE_WARNING, t, "2h", EmptyDict)))
                    => delivered[k] = 1

\* both warnings were notified for a task whose due date was moved since
C10_Witness ==
    \E t \in DOMAIN tasks :
        /\ Len(DeadlineCommits(t)) = 2
        /\ tasks[t].due_date = today + 1
        /\ _check_deadline(tasks[t], StateOf(tasks[t]), today) = <<>>
\* C2 as stated: an event whose key was committed to a task's ledger is
\* never again accepted by should_notify, however many events were
\* committed after it.
C2_CommittedKeyBlockedForever ==
    \A t \in DOMAIN tasks : \A i \in 1..Len(committed[t]) :
        ~ should_notify(config, committed[t][i], tasks[t])

\* C2 as amended: an event whose key was committed is rejected by
\* should_notify, under every config and score, as long as fewer than 50
\* events were committed for the task after it.
C2_CommittedKeyBlockedWhileRecent ==
    \A t \in DOMAIN tasks : \A i \in 1..Len(committed[t]) :
        Len(committed[t]) - i < 50 =>
            \A c \in Configs : \A sc \in Scores :
                ~ should_notify(c, committed[t][i], [tasks[t] EXCEPT !.score = sc])

\* C2 witness: more than 50 events were committed; the oldest one passes
\* again, the fiftieth most recent one does not
C2_Witness ==
    \E t \in DOMAIN tasks :
        /\ Len(committed[t]) > 50
        /\ should_notify(config, committed[t][1], tasks[t])
        /\ ~ should_notify(config, committed[t][Len(committed[t]) - 49], tasks[t])

\* C3: no dedupe key of a task is delivered to Slack more than once.
C3_DeliveredAtMostOnce ==
    \A k \in DOMAIN delivered : delivered[k] = 1

\* C4: the ledger never holds more than 50 keys, and holds the keys of the
\* min(n, 50) most recently committed of the n events, in commit order.
C4_LedgerHoldsLast50 ==
    \A t \in DOMAIN tasks :
        LET n == Len(committed[t])
            m == Len(Ledger(t))
        IN /\ m <= 50
           /\ m = (IF n < 50 THEN n ELSE 50)
           /\ \A i \in 1..m : Ledger(t)[i] = dedupe_key(committed[t][n - m + i])

\* C4 witness: more events were committed than the ledger holds
C4_Witness ==
    \E t \in DOMAIN tasks :
        /\ Len(committed[t]) >= 52
        /\ Len(Ledger(t)) = 50
        /\ Ledger(t)[1] # dedupe_key(committed[t][1])

\* C5: should_notify returns true exactly when the mode is not off, the
\* trigger is enabled, the trigger is deadline_warning or overdue or the
\* score is at least the threshold, and the dedupe key is not in the ledger.
C5_ShouldNotifyIsConjunction ==
    last.op = "should_notify" =>
        LET row == tasks["clickup:1"]
            tr == last.event.trigger
            key == tr \o ":" \o last.event.task_id \o ":" \o last.event.fingerprint
            not_off == config.mode # "off"
            enabled == tr \in DOMAIN config.triggers /\ config.triggers[tr]
            above == tr \in {"deadline_warning", "overdue"}
                     \/ row.score >= config.threshold
            fresh == \/ "dedupe_keys" \notin DOMAIN row.notification_state
                     \/ \A i \in 1..Len(row.notification_state["dedupe_keys"]) :
                           row.notification_state["dedupe_keys"][i] # key
        IN last.result <=> (fresh /\ above /\ enabled /\ not_off)

\* C5 witness: an event of a trigger under the threshold rule passes with a
\* score equal to the threshold
C5_Witness ==
    /\ last.op = "should_notify"
    /\ last.result
    /\ last.event.trigger = ASSIGNED
    /\ tasks["clickup:1"].score = config.threshold

\* every coroutine is outside the section between its query and its commit
Quiescent == \A p \in Procs : handlers[p].pc \in {"idle", "awaiting"}

\* C6: handlers that overlap on one task neither send an event twice nor
\* lose a write: once they are through, the task's ledger holds the key of
\* every event any of them recorded, in order, with the overdue marker and
\* the snapshot the last of them wrote
C6_HandlersDoNotInterfere ==
    /\ \A k \in DOMAIN delivered : delivered[k] = 1
    /\ Quiescent =>
          \A t \in DOMAIN tasks :
             LET c == committed[t]
                 state == StateOf(tasks[t])
             IN /\ Ledger(t) = [i \in 1..Len(c) |-> dedupe_key(c[i])]
                /\ (\E i \in 1..Len(c) : c[i].trigger = OVERDUE)
                      => Get(state, "last_overdue_notified", None) = StrDate(today)
                /\ Len(c) > 0 => Get(state, "prev_assignee", None) = tasks[t].assignee

\* C6 witness: a webhook handler and the poll have both recorded an event for
\* the task while the third handler was waiting in its own request
C6_Witness ==
    /\ Quiescent
    /\ handlers["wh2"].pc = "awaiting"
    /\ \E i, j \in 1..Len(committed[ConcId]) :
          /\ i < j
          /\ committed[ConcId][i].trigger = MENTIONED
          /\ committed[ConcId][j].trigger = OVERDUE
    /\ Len(Ledger(ConcId)) = Len(committed[ConcId])

AssignedKey(t) == dedupe_key(Event(ASSIGNED, t, "assignee=ivan", EmptyDict))

\* C11: of two successive poll cycles, the second one emits the assigned
\* event of an open task whose assignee was another person at the first and
\* is ivan at the second, emits none for a task the first one processed and
\* whose assignee is the same at both, and emits none for a task whose
\* assignee is not ivan.
C11_AssignedOnHandover ==
    [][(last.op = "scheduled_sync" /\ last'.op = "scheduled_sync") =>
          \A t \in (DOMAIN tasks) \cap (DOMAIN tasks') :
             /\ (/\ tasks[t].assignee # "ivan"
                 /\ tasks'[t].assignee = "ivan"
                 /\ tasks'[t].status # "done")
                   => AssignedKey(t) \in last'.detected
             /\ (t \in last.polled /\ tasks'[t].assignee = tasks[t].assignee)
                   => AssignedKey(t) \notin last'.detected
             /\ tasks'[t].assignee # "ivan"
                   => AssignedKey(t) \notin last'.detected]_vars

StatusKey(t, st) == dedupe_key(Event(STATUS_CRITICAL, t, "status=" \o st, EmptyDict))

UnblockedKey(t) == dedupe_key(Event(BLOCKER_RESOLVED, t, "unblocked", EmptyDict))

\* C13: a poll cycle emits the blocker_resolved event of a task it processes
\* exactly when the task's blocked_by is empty and the snapshot's
\* prev_blocked_by is not; so of two successive cycles that process the task
\* the second emits it when the task had blockers at the first and has none
\* now, not when some blockers are left, and not when it had none before.
C13_BlockerResolvedOnce ==
    [][last'.op = "scheduled_sync" =>
          \A t \in last'.polled \cap DOMAIN tasks :
             LET prev == Get(StateOf(tasks[t]), "prev_blocked_by", <<>>)
                 now == tasks'[t].blocked_by
             IN /\ UnblockedKey(t) \in last'.detected
                      <=> (Len(now) = 0 /\ Len(prev) > 0)
                /\ (last.op = "scheduled_sync" /\ t \in last.polled)
                      => (UnblockedKey(t) \in last'.detected
                            <=> (Len(now) = 0 /\ Len(tasks[t].blocked_by) > 0))]_vars

\* C13 witness: the cycle after one that saw two blockers found none left
C13_Witness ==
    /\ last.op = "scheduled_sync"
    /\ UnblockedKey("clickup:1") \in last.detected
    /\ Len(tasks["clickup:1"].blocked_by) = 0
    /\ Len(tasks["clickup:1"].notification_state["prev_blocked_by"]) = 0

LevelTable(n) ==
    CASE n = 0 -> 0
      [] n = 1 -> 1
      [] n = 2 -> 2
      [] n \in 3..4 -> 3
      [] n \in 5..6 -> 5
      [] OTHER -> 7

\* C15: days overdue is max(0, today - due) and 0 without a due date; the
\* level is 0, 1, 2 for 0, 1, 2 days, 3 for 3-4, 5 for 5-6 and 7 from 7 days
\* on, never decreases as the days pass, and an individual notification is
\* due exactly from level 3 on.
C15_EscalationLevels ==
    \A t \in DOMAIN tasks :
       LET due == tasks[t].due_date
           n == IF due = NoDate \/ today <= due THEN 0 ELSE today - due
           level == calculate_escalation_level(tasks[t], today)
       IN /\ calculate_days_overdue(due, today) = n
          /\ level = LevelTable(n)
          /\ level \in {0, 1, 2, 3, 5, 7}
          /\ should_send_individual_notification(tasks[t], today) <=> level >= 3
          /\ \A d \in 0..today :
                calculate_escalation_level(tasks[t], d) <= level

\* C15 witness: one task is five days overdue, one has no due date
C15_Witness ==
    /\ \E t \in DOMAIN tasks :
          /\ tasks[t].due_date # NoDate
          /\ today - tasks[t].due_date = 5
          /\ calculate_escalation_level(tasks[t], today) = 5
    /\ \E t \in DOMAIN tasks : tasks[t].due_date = NoDate

\* the open, dated tasks of the user at a level, in query order
TasksAtLevel(level) ==
    SeqOfIds({id \in DOMAIN tasks :
                 /\ tasks[id].assignee = "ivan"
                 /\ tasks[id].status # "done"
                 /\ tasks[id].due_date # NoDate
                 /\ LevelTable(calculate_days_overdue(tasks[id].due_date, today))
                       = level})

\* one grouped message for a level with three or more tasks, else one
\* individual message per task; each with the hash NotificationLog keeps
MessagesDue ==
    UNION {LET at == TasksAtLevel(level)
           IN IF Len(at) >= 3
              THEN {[key |-> GroupKey(at, level),
                     hash |-> MessageHash("escalation_group",
                                          JoinIds(SubSeq(at, 1, 3)),
                                          format_grouped_escalation(Len(at), level))]}
              ELSE {[key |-> EscKey(at[j], level),
                     hash |-> MessageHash("escalation", at[j],
                                 format_escalation_message(tasks[at[j]].title,
                                                           level))] :
                       j \in 1..Len(at)} :
           level \in {3, 5, 7}}

\* C16 as stated: every dispatch cycle emits, for each level from 3 on,
\* exactly one grouped message when three or more tasks are at the level and
\* exactly one individual message per task otherwise, and nothing else.
C16_OneMessagePerLevel ==
    last.op = "send_escalation_notifications" =>
        last.sent = {m.key : m \in MessagesDue}

\* C16 as amended: every dispatch cycle asks, for each level from 3 on, for
\* exactly one grouped message when three or more tasks are at the level and
\* for one individual message per task otherwise; a message asked for is
\* emitted exactly when the cycle runs outside quiet hours, the Slack call
\* succeeds and NotificationLog holds no message with the same hash.
C16_OneRequestPerLevel ==
    [][last'.op = "send_escalation_notifications" =>
          /\ last'.detected = {m.key : m \in MessagesDue}
          /\ last'.sent = {m.key : m \in {x \in MessagesDue :
                                            /\ last'.result
                                            /\ x.hash \notin notification_log}}]_vars

\* C16 witness: messages for single tasks went out on earlier days, and this
\* cycle sent one grouped message for three tasks
C16_Witness ==
    /\ last.op = "send_escalation_notifications"
    /\ \E level \in {3, 5, 7} :
          /\ Len(TasksAtLevel(level)) = 3
          /\ last.sent = {GroupKey(TasksAtLevel(level), level)}
    /\ \E t \in DOMAIN tasks : \E level \in {3, 5, 7} :
          EscKey(t, level) \in DOMAIN delivered

\* C17: with due dates that never change, every individual escalation message
\* sent for a task is of a higher level than all those sent for it before.
C17_LadderStrictlyIncreases ==
    [][last'.op = "send_escalation_notifications" =>
          \A t \in DOMAIN tasks : \A level \in {3, 5, 7} :
             EscKey(t, level) \in last'.sent =>
                \A earlier \in {3, 5, 7} :
                   earlier >= level => EscKey(t, earlier) \notin DOMAIN delivered]_vars

\* C19: an individual escalation message is sent only when the mode is not
\* off and the overdue trigger is enabled, and the task's notification state
\* then holds a record of it.
C19_EscalationUsesPolicy ==
    last.op = "send_escalation_notifications" =>
        \A t \in DOMAIN tasks : \A level \in {3, 5, 7} :
           EscKey(t, level) \in last.sent =>
              /\ config.mode # "off"
              /\ is_trigger_enabled(config, OVERDUE)
              /\ Len(Ledger(t)) > 0

\* C18: a task of the user that is open and 7 or more days overdue eventually
\* receives a level-7 escalation message, alone or within a group, from the
\* jobs the process runs on their own cadence
C18_FinalWarningEventuallySent ==
    \A t \in {"clickup:1"} :
        (/\ t \in OpenIvan(tasks)
         /\ tasks[t].due_date # NoDate
         /\ calculate_days_overdue(tasks[t].due_date, today) >= 7)
        ~> (\E k \in DOMAIN delivered :
               \/ k = EscKey(t, 7)
               \/ \E ids \in SUBSET DOMAIN tasks :
                     t \in ids /\ k = GroupKey(SeqOfIds(ids), 7))

\* C20: for a payload that is malformed or partial (keys missing, keys with a
\* null value, an empty history_items list, an unknown source or event type)
\* parse_webhook_event returns no event and does not raise
C20_MalformedPayloadIsNoEvent ==
    (/\ parsed.called
     /\ \/ parsed.missing # {}
        \/ parsed.nulls # {}
        \/ parsed.source \notin {"github", "clickup"}
        \/ parsed.event_type \in {"ping", "taskMoved"})
    => (~ parsed.raised /\ parsed.event = <<>>)

\* C21: for a comment webhook parse_webhook_event yields at most one event:
\* mentioned when the comment body names the user, otherwise comment_on_owned
\* only when the commented task is assigned to the user (for GitHub the
\* issue's assignee, for ClickUp the assignee of the task's row), and no
\* event when the comment neither names the user nor is on a task of theirs
C21_CommentClassification ==
    LET github == parsed.source = "github"
        comment == IF github THEN Get(parsed.payload, "comment", EmptyDict)
                   ELSE Get(Get(parsed.payload, "history_items",
                                << EmptyDict >>)[1], "comment", EmptyDict)
        body == Get(comment, IF github THEN "body" ELSE "text_content", "")
        owned == IF github
                 THEN Get(Get(Get(parsed.payload, "issue", EmptyDict),
                              "assignee", EmptyDict), "login", None)
                         = IVAN_GITHUB_LOGIN
                 ELSE tasks["clickup:1"].assignee = "ivan"
    IN (/\ parsed.called /\ ~ parsed.raised
        /\ parsed.event_type \in {"issue_comment", "taskCommentPosted"}
        /\ Get(parsed.payload, "history_items", << EmptyDict >>) # <<>>)
       => /\ Len(parsed.event) <= 1
          /\ (Contains(Lower(body), "ivan") /\ parsed.event # <<>>)
                => parsed.event[1].trigger = MENTIONED
          /\ (~ Contains(Lower(body), "ivan") /\ parsed.event # <<>>)
                => (parsed.event[1].trigger = COMMENT_ON_OWNED /\ owned)

\* C22: a webhook request whose signature is not the HMAC-SHA256 of its body
\* under the configured secret (GitHub "sha256=" followed by the digest,
\* ClickUp the bare digest) is answered 401 and changes neither a task row
\* nor the notification log nor the ledgers
C22_BadSignatureRejected ==
    [][(/\ response' # response
        /\ response'.signature #
              (IF response'.source = "github"
               THEN "sha256=" \o HmacSha256(settings.github_webhook_secret,
                                            response'.body)
               ELSE HmacSha256(settings.clickup_webhook_secret,
                               response'.body)))
       => (/\ response'.status_code = 401
           /\ UNCHANGED <<tasks, notification_log, committed,
                   retry>>)]_vars

\* C22 (amended): with a webhook secret configured, a request is answered 401
\* and changes neither a task row nor the notification log nor the ledgers
\* when its signature is not the HMAC-SHA256 of its body under the secret
\* (GitHub "sha256=" followed by the digest, ClickUp the bare digest), and is
\* accepted otherwise; with no secret configured every request is accepted
C22_BadSignatureRejectedWhenSecretSet ==
    [][(response' # response) =>
         LET secret == IF response'.source = "github"
                       THEN settings.github_webhook_secret
                       ELSE settings.clickup_webhook_secret
             digest == HmacSha256(secret, response'.body)
             expected == IF response'.source = "github"
                         THEN "sha256=" \o digest ELSE digest
         IN IF secret # "" /\ response'.signature # expected
            THEN /\ response'.status_code = 401
                 /\ UNCHANGED <<tasks, notification_log, committed,
                   retry>>
            ELSE response'.status_code = 200]_vars

\* C22 witness: with the secret configured, a GitHub request that carries the
\* bare digest of its body, without the prefix, was answered 401
C22_Witness ==
    /\ settings.github_webhook_secret # ""
    /\ response.source = "github"
    /\ response.signature = HmacSha256(settings.github_webhook_secret,
                                       response.body)
    /\ response.status_code = 401

\* C23: load_notification_config returns exactly the default config when the
\* file is missing, when it cannot be read or parsed, and when a value fails
\* to convert part-way through: nothing of the file is applied then
C23_FailedLoadIsDefault ==
    LET file == settings.notifications_yaml
    IN (/\ last.op = "get_notification_config"
        /\ (~ file.exists \/ ~ file.readable \/ file.ill_typed # {}))
       => config = DefaultConfig

\* C23 witness: a file whose mode is valid and whose threshold is no number
\* was loaded, and the config is the default one
C23_Witness ==
    LET file == settings.notifications_yaml
    IN /\ last.op = "get_notification_config"
       /\ file.exists /\ file.readable
       /\ "mode" \in DOMAIN file.data /\ file.data.mode = "off"
       /\ "threshold" \in file.ill_typed
       /\ config = DefaultConfig

\* C24: after any load the trigger map holds exactly the seven valid names
\* and is_trigger_enabled is false for any other name; a file naming an
\* unknown trigger has its mode, threshold and valid triggers applied
C24_UnknownTriggerIgnored ==
    LET file == settings.notifications_yaml
        data == file.data
    IN last.op = "get_notification_config"
       => /\ DOMAIN config.triggers = VALID_TRIGGERS
          /\ \A name \in {"fake_trigger", "escalation"} :
                ~ is_trigger_enabled(config, name)
          /\ (/\ file.exists /\ file.readable /\ file.ill_typed = {}
              /\ "triggers" \in DOMAIN data
              /\ "fake_trigger" \in DOMAIN data.triggers)
             => /\ "mode" \in DOMAIN data => config.mode = data.mode
                /\ "threshold" \in DOMAIN data
                      => config.threshold = (IF data.threshold = "700"
                                             THEN 700 ELSE 0)
                /\ \A t \in VALID_TRIGGERS \cap DOMAIN data.triggers :
                      config.triggers[t] = data.triggers[t]
                /\ \A t \in VALID_TRIGGERS \ DOMAIN data.triggers :
                      config.triggers[t] = DEFAULT_TRIGGERS[t]

\* C24 witness: a file enabling fake_trigger and comment_on_owned in mode
\* full was loaded
C24_Witness ==
    LET data == settings.notifications_yaml.data
    IN /\ last.op = "get_notification_config"
       /\ config.mode = "full" /\ config.threshold = 700
       /\ config.triggers["comment_on_owned"]
       /\ "triggers" \in DOMAIN data
       /\ "fake_trigger" \in DOMAIN data.triggers
       /\ data.triggers["fake_trigger"]

C26_TasksAreIndependent ==
    [][/\ \A a \in DOMAIN tasks :
             LET own == {MessageHash(committed[a][i].trigger, a,
                                     format_event_message(committed[a][i],
                                                          tasks[a])) :
                            i \in 1..Len(committed[a])}
             IN \A quiet \in BOOLEAN : \A slack_fail \in {{}, EventType} :
                   LET with == PollTask(tasks[a], notification_log, config,
                                        today, today, quiet, slack_fail)
                       alone == PollTask(tasks[a], notification_log \cap own,
                                         config, today, today, quiet,
                                         slack_fail)
                   IN [with EXCEPT !.log = {}] = [alone EXCEPT !.log = {}]
       /\ last'.op = "poll_task" =>
             \A b \in DOMAIN tasks \ last'.polled : tasks'[b] = tasks[b]]_vars

\* C26 witness: both tasks were processed on the day after their common due
\* date, one after the other in one cycle, and each got its own overdue
\* message
C26_Witness ==
    /\ last.op = "poll_task"
    /\ handlers["poll"].i = 3
    /\ \A a \in PairIds :
          /\ tasks[a].due_date = 1
          /\ \E i \in 1..Len(committed[a]) : committed[a][i].trigger = OVERDUE

\* C27: calculate_urgency is 1 for no date, 5 for a date before today, 4 for
\* today, 3 for a date 1 to 7 days ahead, 1 for a date 8 or more days ahead,
\* so it is one of 1, 3, 4, 5 and urgency(today-1) > urgency(today) >
\* urgency(today+3) = urgency(today+7) > urgency(today+8)
C27_UrgencyLevels ==
    last.op = "calculate_urgency" =>
       LET urgency == last.result
       IN /\ \A d \in DOMAIN urgency :
                /\ urgency[d] \in {1, 3, 4, 5}
                /\ urgency[d] = (CASE d = NoDate -> 1
                                   [] d # NoDate /\ d < today -> 5
                                   [] d = today -> 4
                                   [] d > today /\ d <= today + 7 -> 3
                                   [] OTHER -> 1)
          /\ urgency[today - 1] > urgency[today]
          /\ urgency[today] > urgency[today + 3]
          /\ urgency[today + 3] = urgency[today + 7]
          /\ urgency[today + 7] > urgency[today + 8]

\* C27 witness: the levels were computed and the date a week ahead has level 3
C27_Witness ==
    /\ last.op = "calculate_urgency"
    /\ last.result[today + 7] = 3
    /\ last.result[today + 8] = 1

\* C28: the score score_and_sort_tasks stores is 1000 for a revenue task, plus
\* 500 for each person in is_blocking, plus 100 times the urgency of the due
\* date, plus 1 when last_activity is less than 24 hours back; so a task
\* without revenue that blocks two people and is due today scores higher than
\* a revenue task that blocks nobody and is due more than 7 days ahead
C28_ScoreFormula ==
    last.op = "score_and_sort_tasks" =>
       /\ \A id \in DOMAIN tasks :
             LET task == tasks[id]
                 due == task.due_date
                 urgency == CASE due = NoDate -> 1
                              [] due # NoDate /\ due < today -> 5
                              [] due = today -> 4
                              [] due > today /\ due <= today + 7 -> 3
                              [] OTHER -> 1
             IN task.score =
                   (IF task.is_revenue THEN 1000 ELSE 0)
                   + 500 * Len(task.is_blocking)
                   + 100 * urgency
                   + (IF task.last_activity # NoDate
                         /\ UtcNow(today) - task.last_activity < 24
                      THEN 1 ELSE 0)
       /\ \A a, b \in DOMAIN tasks :
             (/\ ~ tasks[a].is_revenue
              /\ Len(tasks[a].is_blocking) = 2
              /\ tasks[a].due_date = today
              /\ tasks[b].is_revenue
              /\ Len(tasks[b].is_blocking) = 0
              /\ tasks[b].due_date > today + 7)
             => tasks[a].score > tasks[b].score

\* C28 witness: the tasks were scored, the first one blocks two people, is
\* due today and brings no revenue, the second one is a revenue task due in 8
\* days with activity in the last 24 hours
C28_Witness ==
    /\ last.op = "score_and_sort_tasks"
    /\ ~ tasks["clickup:1"].is_revenue
    /\ Len(tasks["clickup:1"].is_blocking) = 2
    /\ tasks["clickup:1"].due_date = today
    /\ tasks["clickup:2"].is_revenue
    /\ tasks["clickup:2"].due_date = today + 8
    /\ tasks["clickup:2"].score = 1101

\* C29: the total of a score breakdown is the sum of the addends it shows
\* (revenue, blocking, urgency, recency, and with context project_urgency and
\* entity_priority) and is the score computed from the task's fields and the
\* context at the time of the call, whatever task.score holds
C29_BreakdownTotal ==
    last.op \in {"get_score_breakdown", "get_score_breakdown_with_context"} =>
       \A id \in last.polled :
          LET b == last.result.breakdown
              context == IF last.op = "get_score_breakdown" THEN 0
                         ELSE b.project_urgency + b.entity_priority
          IN /\ b.total = b.revenue + b.blocking + b.urgency + b.recency
                          + context
             /\ b.total = calculate_score_with_context(
                             tasks[id], last.result.entity,
                             last.result.workstream, today, UtcNow(today))

\* C30: in scheduled_sync and in both webhook handlers the key of an event
\* whose send did not succeed is not in the task's ledger afterwards, and a
\* run in which no send succeeded leaves the ledger and the deadline and
\* overdue markers of the task as they were
C30_KeyOnlyAfterSuccess ==
    [][last'.op \in {"scheduled_sync", "github_webhook", "clickup_webhook"} =>
          \A t \in last'.polled \cap DOMAIN tasks :
             /\ \A k \in last'.failed :
                   ~ InSeq(k, Get(StateOf(tasks'[t]), "dedupe_keys", <<>>))
             /\ last'.sent = {} =>
                   \A f \in {"dedupe_keys", "last_deadline_notified",
                             "last_overdue_notified"} :
                      /\ (f \in DOMAIN StateOf(tasks'[t]))
                            = (f \in DOMAIN StateOf(tasks[t]))
                      /\ f \in DOMAIN StateOf(tasks[t]) =>
                            StateOf(tasks'[t])[f] = StateOf(tasks[t])[f]]_vars

\* C31: a poll cycle that finds a task changed since the snapshot of the
\* last cycle (assigned to ivan and not before, status in another critical
\* value than before, blocked_by empty and not before) has should_notify
\* accept the event, at a first and at a repeated occurrence alike, whenever
\* the mode is not off, the trigger is enabled and the score reaches the
\* threshold
C31_RepeatedTransitionAccepted ==
    [][last'.op = "scheduled_sync" =>
          \A t \in last'.polled \cap DOMAIN tasks :
             LET snap == StateOf(tasks[t])
                 row == tasks'[t]
                 allowed(trigger) ==
                     /\ config.mode # "off"
                     /\ trigger \in DOMAIN config.triggers
                     /\ config.triggers[trigger]
                     /\ row.score >= config.threshold
                 accepted == last'.sent \cup last'.failed
             IN /\ (/\ row.assignee = "ivan"
                    /\ Get(snap, "prev_assignee", None) # "ivan"
                    /\ allowed(ASSIGNED))
                      => AssignedKey(t) \in accepted
                /\ (/\ Lower(row.status) \in CRITICAL_STATUSES
                    /\ Lower(Get(snap, "prev_status", "")) # Lower(row.status)
                    /\ allowed(STATUS_CRITICAL))
                      => StatusKey(t, Lower(row.status)) \in accepted
                /\ (/\ Len(row.blocked_by) = 0
                    /\ Len(Get(snap, "prev_blocked_by", <<>>)) > 0
                    /\ allowed(BLOCKER_RESOLVED))
                      => UnblockedKey(t) \in accepted]_vars

\* C32: update_notification_state sets last_deadline_notified, to the event's
\* fingerprint, for a deadline_warning event only and sets
\* last_overdue_notified for an overdue event only; every other event leaves
\* both markers as they were, a deadline warning leaves the overdue marker
\* and an overdue event the deadline marker as it was
C32_MarkerOfTriggerOnly ==
    [][last'.op = "update_notification_state" =>
          \A t \in DOMAIN tasks :
             LET old == StateOf(tasks[t])
                 new == StateOf(tasks'[t])
                 same(f) == /\ (f \in DOMAIN new) = (f \in DOMAIN old)
                            /\ f \in DOMAIN old => new[f] = old[f]
             IN /\ IF last'.event.trigger = DEADLINE_WARNING
                   THEN /\ "last_deadline_notified" \in DOMAIN new
                        /\ new["last_deadline_notified"] = last'.event.fingerprint
                   ELSE same("last_deadline_notified")
                /\ IF last'.event.trigger = OVERDUE
                   THEN "last_overdue_notified" \in DOMAIN new
                   ELSE same("last_overdue_notified")]_vars

\* C32 witness: a deadline warning was recorded on a task that holds the
\* overdue marker of an earlier day, and the marker is still that day's
C32_Witness ==
    /\ last.op = "update_notification_state"
    /\ last.event.trigger = DEADLINE_WARNING
    /\ last.event.fingerprint = "2h"
    /\ Get(StateOf(tasks["clickup:1"]), "last_overdue_notified", None)
          = StrDate(0)
    /\ Get(StateOf(tasks["clickup:1"]), "last_deadline_notified", None) = "2h"

\* C33: update_prev_state_only changes prev_status, prev_assignee and
\* prev_blocked_by only: dedupe_keys, last_deadline_notified and
\* last_overdue_notified are afterwards what they were, and absent when they
\* were absent
C33_TouchWritesSnapshotOnly ==
    [][last'.op = "update_prev_state_only" =>
          \A t \in DOMAIN tasks :
             LET old == StateOf(tasks[t])
                 new == StateOf(tasks'[t])
             IN /\ DOMAIN new = DOMAIN old \cup {"prev_status", "prev_assignee",
                                                 "prev_blocked_by"}
                /\ \A f \in DOMAIN old \ {"prev_status", "prev_assignee",
                                          "prev_blocked_by"} :
                      new[f] = old[f]
                /\ new["prev_status"] = tasks[t].status
                /\ new["prev_assignee"] = tasks[t].assignee
                /\ new["prev_blocked_by"] = tasks[t].blocked_by]_vars

\* C33 witness: the snapshot of a task with two keys and both markers was
\* refreshed
C33_Witness ==
    /\ last.op = "update_prev_state_only"
    /\ Len(Ledger("clickup:1")) = 2
    /\ Get(StateOf(tasks["clickup:1"]), "last_deadline_notified", None) = "24h"
    /\ Get(StateOf(tasks["clickup:1"]), "last_overdue_notified", None)
          = StrDate(0)
    /\ Get(StateOf(tasks["clickup:1"]), "prev_assignee", None) = "ivan"

\* C34: when a poll cycle has evaluated should_notify for a task, the score
\* the task holds is the score computed from its fields on that day
C34_ScoreIsCurrent ==
    last.op = "scheduled_sync" =>
       \A t \in last.polled \cap DOMAIN tasks :
          last.detected # {} =>
             tasks[t].score = calculate_score(tasks[t], today, UtcNow(today))

\* C35: once a poll cycle has committed an overdue event, the stored
\* last_overdue_notified is the date of that event's fingerprint
C35_OverdueMarkerIsFingerprintDate ==
    last.op = "scheduled_sync" =>
       \A t \in last.polled \cap DOMAIN tasks : \A d \in Days :
          ("overdue:" \o t \o ":overdue:" \o StrDate(d)) \in last.sent =>
             Get(StateOf(tasks[t]), "last_overdue_notified", None) = StrDate(d)

\* C36: right after a defer that moves the due date to tomorrow, a 24h
\* warning for the new due date is emitted and its key is not in the
\* ledger, whatever was notified for the old due date
C36_DeferredDueDateWarned ==
    last.op = "defer" =>
       \A t \in DOMAIN tasks :
          LET due == tasks[t].due_date
              warned == \E i \in 1..Len(committed[t]) :
                           /\ committed[t][i].trigger = DEADLINE_WARNING
                           /\ committed[t][i].context.due_date = StrDate(due)
              ev == _check_deadline(tasks[t], StateOf(tasks[t]), today)
          IN (due = today + 1 /\ ~ warned) =>
                /\ ev # <<>>
                /\ ev[1].fingerprint = "24h"
                /\ ~ InSeq(dedupe_key(ev[1]), Ledger(t))

\* C37: a sync that updates an existing row leaves its notification state
\* (ledger, both markers, prev_* snapshot) as it was
C37_SyncKeepsNotificationState ==
    [][last'.op = "sync_all_sources" =>
          \A t \in DOMAIN tasks :
             /\ t \in DOMAIN tasks'
             /\ tasks'[t].notification_state = tasks[t].notification_state]_vars

\* a sync has changed a row that holds a ledger, both markers and a snapshot
C37_Witness ==
    /\ last.op = "sync_all_sources"
    /\ \E t \in DOMAIN tasks :
          /\ Ledger(t) # <<>>
          /\ {"last_deadline_notified", "last_overdue_notified",
              "prev_status", "prev_assignee", "prev_blocked_by"}
                \subseteq DOMAIN StateOf(tasks[t])

\* C38: a poll cycle sends no event notification for a task that is done or
\* not assigned to ivan and leaves its notification state alone, and the
\* escalation job sends no individual or grouped message that names it
C38_OnlyOpenTasksOfIvan ==
    [][/\ last'.op = "scheduled_sync" =>
             \A t \in DOMAIN tasks' :
                (tasks'[t].status = "done" \/ tasks'[t].assignee # "ivan") =>
                   /\ \A k \in last'.sent : ~ Contains(k, t)
                   /\ tasks'[t].notification_state = tasks[t].notification_state
       /\ last'.op = "send_escalation_notifications" =>
             \A t \in DOMAIN tasks' :
                (tasks'[t].status = "done" \/ tasks'[t].assignee # "ivan") =>
                   \A k \in last'.sent : ~ Contains(k, t)]_vars

\* the escalation job has sent a message while an overdue task of level 3
\* or more is done or handed over, after a poll cycle has notified an event
C38_Witness ==
    /\ last.op = "send_escalation_notifications"
    /\ last.sent # {}
    /\ \E t \in DOMAIN tasks :
          /\ tasks[t].status = "done" \/ tasks[t].assignee # "ivan"
          /\ should_send_individual_notification(tasks[t], today)
    /\ \E u \in DOMAIN tasks : committed[u] # <<>>

\* C39: in quiet hours (start <= now <= end, or now >= start or now <= end
\* for a window that passes midnight) send_dm and the escalation senders
\* deliver nothing and write no NotificationLog entry, except for the type
\* morning; outside quiet hours every message sent has a hash that was not
\* in NotificationLog
C39_QuietHoursAndHash ==
    [][last'.op \in {"send_dm", "send_escalation_notifications"} =>
          LET now == last'.event.context.now
              start == settings.quiet_hours_start
              end == settings.quiet_hours_end
              quiet_hours == \/ start <= now /\ now <= end
                             \/ start > end /\ (now >= start \/ now <= end)
          IN /\ (quiet_hours /\ last'.event.trigger # "morning") =>
                   /\ last'.sent = {}
                   /\ delivered' = delivered
                   /\ notification_log' = notification_log
             /\ ~ quiet_hours =>
                   /\ Cardinality(notification_log' \ notification_log)
                         = Cardinality(last'.sent)
                   /\ last'.op = "send_dm" =>
                         last'.sent \cap notification_log = {}]_vars

\* the escalation job has sent a message just outside a window that passes
\* midnight, after a morning message was delivered
C39_Witness ==
    /\ last.op = "send_escalation_notifications"
    /\ last.sent # {}
    /\ settings.quiet_hours_start > settings.quiet_hours_end
    /\ last.event.context.now > settings.quiet_hours_end
    /\ last.event.context.now < settings.quiet_hours_start
    /\ MessageHash("morning", "clickup:1", "Ship it") \in notification_log


\* C40: _sync_with_retry ends, and it calls syncer.sync at most 3 times: the
\* first success is returned, an error that is no timeout, connection
\* error, server error or rate limit is raised again with no further call,
\* the waits after the transient errors are 1, 2 and 4 seconds, none over
\* 30, and after three transient errors the last of them is raised
C40_RetryTerminates ==
    /\ [](LET n == Len(retry.errors)
              Transient(e) ==
                  \/ e.class \in {"TimeoutException", "ConnectError"}
                  \/ e.class = "HTTPStatusError"
                        /\ (e.status = 429 \/ e.status >= 500)
          IN retry.pc # "idle" =>
                /\ retry.calls <= 3
                /\ retry.calls = n + (IF retry.pc = "returned" THEN 1 ELSE 0)
                /\ \A i \in 1..(n - 1) : Transient(retry.errors[i])
                /\ (n >= 1 /\ ~ Transient(retry.errors[n])) =>
                      /\ retry.pc = "raised"
                      /\ retry.raised = <<retry.errors[n]>>
                /\ (n >= 1 /\ Transient(retry.errors[n])) =>
                      /\ Len(retry.delays) = n
                      /\ retry.pc = "raised" =>
                            n = 3 /\ retry.raised = <<retry.errors[3]>>
                /\ \A i \in 1..Len(retry.delays) :
                      /\ retry.delays[i] = <<1, 2, 4>>[i]
                      /\ retry.delays[i] <= 30
                /\ retry.pc = "returned" => retry.raised = <<>>)
    /\ <>(retry.pc \in {"returned", "raised"})

\* three transient errors of different kinds, then the last one is raised
C40_Witness ==
    /\ retry.pc = "raised"
    /\ retry.calls = 3
    /\ retry.delays = <<1, 2, 4>>
    /\ retry.errors[1] # retry.errors[3]
    /\ retry.raised = <<retry.errors[3]>>
====
